---- MODULE Spec2Model ----
(***************************************************************************)
(* A model of the session store of backend/auth/session_store.py           *)
(* (ProductionSessionStore): the in-memory map of session records, the     *)
(* lazy and bulk expiry, and the write-temp-then-rename persistence.       *)
(*                                                                         *)
(* Time is the integer value of datetime.utcnow(); one Store operation     *)
(* reads the clock at one instant.  A timestamp text is the record         *)
(* [fmt, t]: isoformat writes fmt = "iso", fromisoformat reads it back and *)
(* raises ValueError on any other text.                                    *)
(***************************************************************************)
EXTENDS Integers, Sequences, FiniteSets, TLC

\* ------------------------------------------------------------------ bounds
\* Largest clock value the model lets utcnow() reach.
MaxTime == 2
\* Number of session ids the generator can hand out in one run.
MaxSessions == 2
\* session_duration and cleanup_interval the store is constructed with, in
\* clock ticks.
SessionDuration == 1
CleanupInterval == 1

\* Number of request threads (or, one thread each, of store processes).
NumThreads == 2
\* The attempts the clients make on the rate limiter.
MaxAttempts == 5

VARIABLES
  now,           \* datetime.utcnow()
  sessions,      \* self._sessions: session id -> record
  last_cleanup,  \* self._last_cleanup
  file,          \* content of auth/sessions.json
  issued,        \* how many session ids _generate_session_id has produced
  last,          \* the last operation: its name, arguments and result
  supplied_id,   \* history: session id in the map -> the 'id' its caller supplied
  session_duration,  \* self.session_duration
  cleanup_interval   \* self.cleanup_interval

storeVars == <<now, sessions, last_cleanup, file, issued, last, supplied_id,
               session_duration, cleanup_interval>>

\* The store under threads and processes, and the file system under it.
VARIABLES
  proc_of,       \* thread -> the process it runs in
  pc,            \* thread -> the step it takes next
  cur,           \* thread -> its call: operation, arguments, result
  mem,           \* process -> its self._sessions
  lock,          \* process -> its self._lock: owner thread and depth
  fs_path,       \* path -> inode (0: no such file)
  inode,         \* inode -> content
  fd,            \* thread -> the file it has open for writing
  reader,        \* a process loading the backing file
  pre,           \* history: the session ids in the store at the start
  ref,           \* history: the map after the calls so far, run one at a time
  ref_ver,       \* history: number of flushing calls that took the lock
  file_ver,      \* history: number of the last version renamed into place
  file_ok,       \* history: every rename installed the next version, complete
  last_renamed   \* history: the document of the last successful rename

fsVars == <<proc_of, pc, cur, mem, lock, fs_path, inode, fd, reader,
            pre, ref, ref_ver, file_ver, file_ok, last_renamed>>

\* The Flask side of one browser: its cookie session and the context of its
\* request.
VARIABLES
  cookie,        \* flask.session: the keys the signed cookie carries
  flask_g,       \* flask.g: current_user and is_authenticated
  jar,           \* history: the cookies login_user_session has sent out
  logged_out,    \* history: the session ids logout_user_session ran on
  reqs,          \* request -> a request in flight: its own session and g
  attempts,      \* rate_limiter.attempts: identifier -> its list
  lim,           \* thread -> its call on the rate limiter
  recorded,      \* history: every attempt record_attempt appended
  lost,          \* history: fresh attempts a cleaning assignment dropped
  failed         \* history: identifier -> the instants its sign-ins failed

webVars == <<cookie, flask_g, jar, logged_out, reqs, attempts, lim, recorded,
             lost, failed>>

vars == <<storeVars, fsVars, webVars>>

\* ------------------------------------------------------------------ values
NoneVal == "<None>"
SessionIds == 1..MaxSessions
Times == 0..MaxTime

\* datetime.isoformat(): the text of instant t.
isoformat(t) == [fmt |-> "iso", t |-> t]
\* A text that is no ISO timestamp.
BadText == [fmt |-> "bad", t |-> 0]
\* datetime.fromisoformat(x) succeeds exactly on the texts isoformat writes.
IsIso(x) == x.fmt = "iso"
fromisoformat(x) == x.t

\* A user identifier is the text pfx ++ rest; the empty text is falsy.
UserIdText(pfx, rest) == [pfx |-> pfx, rest |-> rest]
EmptyId == UserIdText("", "")
U1 == UserIdText("", "u1")
UserA == UserIdText("user-", "a")
GenNames == <<"g1", "g2", "g3", "g4", "g5", "g6", "g7", "g8">>
\* _generate_user_id(): "user-" followed by 16 hex digits of a fresh uuid4.
_generate_user_id(k) == UserIdText("user-", GenNames[k])
\* A generator that returns the same id at every call.
_generate_session_id_fixed(k) == 1
\* _generate_session_id(): a token from 32 fresh random bytes; the k-th call
\* returns an id no earlier call returned.
_generate_session_id(k) == k

\* The identity claims login_user_session passes to create_session.
DataA ==
  [id |-> UserA, email |-> "a@x.test", full_name |-> "A",
   company_name |-> NoneVal, startup_stage |-> NoneVal,
   avatar_url |-> "a.png", login_method |-> "email",
   ip_address |-> "10.0.0.1", user_agent |-> "ua1"]
DataB ==
  [id |-> U1, email |-> "b@x.test", full_name |-> "B",
   company_name |-> "Co", startup_stage |-> "seed",
   avatar_url |-> NoneVal, login_method |-> "google",
   ip_address |-> "10.0.0.2", user_agent |-> "ua2"]
UserData == {DataA, DataB}

\* User identifiers a caller may pass to the per-user operations.
UserIds == {UserA, U1} \cup {_generate_user_id(k) : k \in 1..MaxSessions}

\* The partial updates a caller passes to update_session at time t.
Updates(t) ==
  { [active |-> FALSE],
    [expires_at |-> isoformat(t + session_duration)] }

\* Results of operations.
RetNone == [kind |-> "none"]
\* A returned record is the dict stored in the map under its session id.
RetRec(r) == [kind |-> "rec", sid |-> r.session_id]
RetBool(b) == [kind |-> "bool", val |-> b]
RetInt(n) == [kind |-> "int", val |-> n]
RetList(s) == [kind |-> "list", val |-> s]
RetRaise(e) == [kind |-> "raise", exc |-> e]

\* session.get('session_id') of a cookie that carries none.
NoSessionId == 0
\* The Flask session with no key: a new browser, or after session.clear().
EmptyCookie == [k \in {} |-> NoSessionId]
\* g.current_user = None.
NoUser == [kind |-> "none"]
\* The request context as before_request first sets it.
Unauthenticated == [current_user |-> NoUser, is_authenticated |-> FALSE]

\* The requests the server works on at the same time, one thread each.
Requests == 1..NumThreads
\* No request on the thread.
IdleReq ==
  [pc |-> "idle", path |-> << >>,
   sent |-> [cookie |-> EmptyCookie, owner |-> NoUser],
   session |-> EmptyCookie, g |-> Unauthenticated, user |-> NoUser]
\* rate_limiter.attempts = {}.
NoAttempts == [k \in {} |-> << >>]
\* No rate limiter call on the thread.
IdleLim == [pc |-> "idle"]

\* The Flask side before the first request.
InitWeb ==
  /\ cookie = EmptyCookie
  /\ flask_g = Unauthenticated
  /\ jar = {}
  /\ logged_out = {}
  /\ reqs = [r \in Requests |-> IdleReq]
  /\ attempts = NoAttempts
  /\ lim = [t \in Requests |-> IdleLim]
  /\ recorded = NoAttempts
  /\ lost = 0
  /\ failed = NoAttempts

\* ------------------------------------------------------------- persistence
NoFile == [kind |-> "absent"]
\* json.dump(self._sessions): the complete document of the map.
Serialize(m) ==
  [kind |-> "json", data |-> m, size |-> Cardinality(DOMAIN m) + 1]

\* The store as one value: the fields the operations read and write.
Store == [sessions |-> sessions, last_cleanup |-> last_cleanup, file |-> file]

\* _save_sessions(): the whole map replaces the backing file.
_save_sessions(st) == [st EXCEPT !.file = Serialize(st.sessions)]

\* ------------------------------------------------------------------ expiry
\* A JSON value that is no object (a text, a number, a list, null).
JsonScalar(x) == [scalar |-> x]
IsDict(r) == "scalar" \notin DOMAIN r

\* A variant: a record is kept up to and including the instant it expires.
KeptByClean_lenient(r, t) ==
  /\ IsDict(r)
  /\ "expires_at" \in DOMAIN r
  /\ IsIso(r.expires_at)
  /\ fromisoformat(r.expires_at) >= t
  /\ IF "active" \in DOMAIN r THEN r.active ELSE TRUE

\* The test of _clean_expired for one entry: kept iff it is an object with an
\* expires_at that parses and is strictly later than now, and its active
\* flag, True when missing, is true.  session_data['expires_at'] raises
\* TypeError on a value that is no object and KeyError on a missing key,
\* fromisoformat raises ValueError; all three skip the entry.
KeptByClean(r, t) ==
  /\ IsDict(r)
  /\ "expires_at" \in DOMAIN r
  /\ IsIso(r.expires_at)
  /\ fromisoformat(r.expires_at) > t
  /\ IF "active" \in DOMAIN r THEN r.active ELSE TRUE

_clean_expired(m, t) ==
  [s \in {x \in DOMAIN m : KeptByClean(m[x], t)} |-> m[s]]

cleanup_expired_sessions(st, t) ==
  LET cleaned == _clean_expired(st.sessions, t)
      removed_count == Cardinality(DOMAIN st.sessions) - Cardinality(DOMAIN cleaned)
      st1 == [st EXCEPT !.sessions = cleaned]
  IN [st |-> IF removed_count > 0 THEN _save_sessions(st1) ELSE st1,
      ret |-> RetInt(removed_count)]

\* A variant: the sweep already runs when the interval has just elapsed.
_cleanup_if_needed_eager(st, t) ==
  IF t - st.last_cleanup >= cleanup_interval
  THEN [cleanup_expired_sessions(st, t).st EXCEPT !.last_cleanup = t]
  ELSE st

\* _cleanup_if_needed(): the sweep runs, and last_cleanup is set to now, when
\* more than cleanup_interval has passed since last_cleanup.
_cleanup_if_needed(st, t) ==
  IF t - st.last_cleanup > cleanup_interval
  THEN [cleanup_expired_sessions(st, t).st EXCEPT !.last_cleanup = t]
  ELSE st

\* ------------------------------------------------------------- operations
\* A variant: the record is marked inactive and kept in the map.
invalidate_session_soft(st, sid) ==
  IF sid \in DOMAIN st.sessions
  THEN [st |-> _save_sessions([st EXCEPT !.sessions[sid].active = FALSE]),
        ret |-> RetBool(TRUE)]
  ELSE [st |-> st, ret |-> RetBool(FALSE)]

invalidate_session(st, sid) ==
  IF sid \in DOMAIN st.sessions
  THEN [st |-> _save_sessions(
                 [st EXCEPT !.sessions =
                    [s \in DOMAIN st.sessions \ {sid} |-> st.sessions[s]]]),
        ret |-> RetBool(TRUE)]
  ELSE [st |-> st, ret |-> RetBool(FALSE)]

\* The expiry test of get_session: the record is dropped when the clock is
\* strictly past expires_at or the record is inactive.
GetSessionExpired(r, t) == t > fromisoformat(r.expires_at) \/ ~r.active

get_session(st, sid, t) ==
  LET st1 == _cleanup_if_needed(st, t)
  IN IF sid \notin DOMAIN st1.sessions
     THEN [st |-> st1, ret |-> RetNone]
     ELSE LET r == st1.sessions[sid]
          IN IF ~IsIso(r.expires_at) \/ GetSessionExpired(r, t)
             THEN [st |-> invalidate_session(st1, sid).st, ret |-> RetNone]
             ELSE LET r1 == [r EXCEPT !.last_accessed = isoformat(t)]
                  IN [st |-> [st1 EXCEPT !.sessions[sid] = r1],
                      ret |-> RetRec(r1)]

\* A variant: the new expiry is the instant of the call.
ExpiresAt_now(t) == t
\* now + self.session_duration.
ExpiresAt(t) == t + session_duration

\* dict.get(key, default).
Get(d, key, default) == IF key \in DOMAIN d THEN d[key] ELSE default

\* A variant: every session gets a generated user id.
SessionUserId_generated(user_data, gen_uid) == gen_uid

\* A variant: the caller's id, or none, is stored as it came.
SessionUserId_supplied(user_data, gen_uid) == Get(user_data, "id", EmptyId)

\* The user_id of a new record: the caller's id when there is one, it is
\* non-empty and starts with "user-"; a generated one otherwise.
SessionUserId(user_data, gen_uid) ==
  IF "id" \notin DOMAIN user_data
  THEN gen_uid
  ELSE IF user_data.id = EmptyId \/ user_data.id.pfx # "user-"
       THEN gen_uid ELSE user_data.id

\* A variant: the record is built and returned but never put in the map.
create_session_unstored(st, user_data, sid, gen_uid, t) ==
  LET st1 == _cleanup_if_needed(st, t)
  IN [st |-> _save_sessions(st1),
      ret |-> [kind |-> "rec", sid |-> sid]]

\* A variant: an id that is already a key is refused and the record under it
\* is kept.
create_session_checked(st, user_data, sid, gen_uid, t) ==
  LET st1 == _cleanup_if_needed(st, t)
      user_id == SessionUserId(user_data, gen_uid)
      session_data ==
        [session_id |-> sid,
         user_id |-> user_id,
         user_email |-> Get(user_data, "email", ""),
         user_name |-> Get(user_data, "full_name", ""),
         company_name |-> Get(user_data, "company_name", NoneVal),
         startup_stage |-> Get(user_data, "startup_stage", NoneVal),
         avatar_url |-> Get(user_data, "avatar_url", NoneVal),
         created_at |-> isoformat(t),
         expires_at |-> isoformat(ExpiresAt(t)),
         last_accessed |-> isoformat(t),
         ip_address |-> Get(user_data, "ip_address", NoneVal),
         user_agent |-> Get(user_data, "user_agent", NoneVal),
         active |-> TRUE,
         login_method |-> Get(user_data, "login_method", "email")]
      m == [s \in DOMAIN st1.sessions \cup {sid} |->
              IF s = sid THEN session_data ELSE st1.sessions[s]]
  IN IF sid \in DOMAIN st1.sessions
     THEN [st |-> st1, ret |-> RetRaise("KeyError")]
     ELSE [st |-> _save_sessions([st1 EXCEPT !.sessions = m]),
           ret |-> RetRec(session_data)]

create_session(st, user_data, sid, gen_uid, t) ==
  LET st1 == _cleanup_if_needed(st, t)
      user_id == SessionUserId(user_data, gen_uid)
      session_data ==
        [session_id |-> sid,
         user_id |-> user_id,
         user_email |-> Get(user_data, "email", ""),
         user_name |-> Get(user_data, "full_name", ""),
         company_name |-> Get(user_data, "company_name", NoneVal),
         startup_stage |-> Get(user_data, "startup_stage", NoneVal),
         avatar_url |-> Get(user_data, "avatar_url", NoneVal),
         created_at |-> isoformat(t),
         expires_at |-> isoformat(ExpiresAt(t)),
         last_accessed |-> isoformat(t),
         ip_address |-> Get(user_data, "ip_address", NoneVal),
         user_agent |-> Get(user_data, "user_agent", NoneVal),
         active |-> TRUE,
         login_method |-> Get(user_data, "login_method", "email")]
      m == [s \in DOMAIN st1.sessions \cup {sid} |->
              IF s = sid THEN session_data ELSE st1.sessions[s]]
  IN [st |-> _save_sessions([st1 EXCEPT !.sessions = m]),
      ret |-> RetRec(session_data)]

\* dict.update(updates): the fields of updates replace those of r.
DictUpdate(r, updates) ==
  [f \in DOMAIN r \cup DOMAIN updates |->
     IF f \in DOMAIN updates THEN updates[f] ELSE r[f]]

update_session(st, sid, updates, t) ==
  IF sid \notin DOMAIN st.sessions
  THEN [st |-> st, ret |-> RetBool(FALSE)]
  ELSE LET r1 == [DictUpdate(st.sessions[sid], updates)
                    EXCEPT !.last_accessed = isoformat(t)]
       IN [st |-> _save_sessions([st EXCEPT !.sessions[sid] = r1]),
           ret |-> RetBool(TRUE)]

\* A variant: the filter on the owner is missing.
OwnedBy_anyone(r, user_id) == TRUE

\* The records invalidate_user_sessions selects.
OwnedBy(r, user_id) == r.user_id = user_id

invalidate_user_sessions(st, user_id) ==
  LET sessions_to_remove ==
        {s \in DOMAIN st.sessions : OwnedBy(st.sessions[s], user_id)}
      m == [s \in DOMAIN st.sessions \ sessions_to_remove |-> st.sessions[s]]
      st1 == [st EXCEPT !.sessions = m]
  IN [st |-> IF sessions_to_remove # {} THEN _save_sessions(st1) ELSE st1,
      ret |-> RetInt(Cardinality(sessions_to_remove))]

refresh_session(st, sid, t) ==
  LET g == get_session(st, sid, t)
  IN IF g.ret.kind # "rec"
     THEN [st |-> g.st, ret |-> RetNone]
     ELSE LET r1 == [g.st.sessions[sid] EXCEPT !.expires_at = isoformat(t + session_duration),
                                      !.last_accessed = isoformat(t)]
          IN [st |-> _save_sessions([g.st EXCEPT !.sessions[sid] = r1]),
              ret |-> RetRec(r1)]

\* The ids of a map in the order a dict iterates them: insertion order, which
\* is the order the ids were generated in.
RECURSIVE IterOrder(_)
IterOrder(S) ==
  IF S = {} THEN << >>
  ELSE LET m == CHOOSE x \in S : \A y \in S : x <= y
       IN <<m>> \o IterOrder(S \ {m})

\* The loop of get_user_sessions over self._sessions.values().  d0 is the
\* dict the iterator was made from; same says self._sessions is still that
\* dict (the sweep rebinds self._sessions to a new dict); resized says a
\* record was deleted from d0, on which the iterator's next step raises
\* RuntimeError.
RECURSIVE UserSessionsLoop(_, _, _, _, _, _, _, _)
UserSessionsLoop(st, user_id, t, order, d0, same, resized, acc) ==
  IF resized THEN [st |-> st, ret |-> RetRaise("RuntimeError")]
  ELSE IF order = << >> THEN [st |-> st, ret |-> RetList(acc)]
  ELSE LET r == d0[Head(order)]
       IN IF r.user_id # user_id
          THEN UserSessionsLoop(st, user_id, t, Tail(order), d0, same, resized, acc)
          ELSE LET g == get_session(st, r.session_id, t)
                   swept == t - st.last_cleanup > cleanup_interval
                   same1 == same /\ ~swept
                   deleted == g.ret.kind = "none"
                              /\ r.session_id \in DOMAIN _cleanup_if_needed(st, t).sessions
               IN UserSessionsLoop(g.st, user_id, t, Tail(order), d0, same1,
                                   same1 /\ deleted,
                                   IF g.ret.kind = "rec"
                                   THEN Append(acc, r.session_id) ELSE acc)

get_user_sessions(st, user_id, t) ==
  UserSessionsLoop(st, user_id, t, IterOrder(DOMAIN st.sessions), st.sessions,
                   TRUE, FALSE, << >>)

get_stats(st, t) ==
  LET active == {s \in DOMAIN st.sessions : KeptByClean(st.sessions[s], t)}
  IN [total_sessions |-> Cardinality(DOMAIN st.sessions),
      active_sessions |-> Cardinality(active),
      expired_sessions |-> Cardinality(DOMAIN st.sessions \ active),
      last_cleanup |-> isoformat(st.last_cleanup)]

\* ------------------------------------------------------------------ actions
\* ProductionSessionStore(session_duration, cleanup_interval) with no backing
\* file yet.
InitStoreWith(duration, interval) ==
  /\ now = 0
  /\ sessions = << >>
  /\ last_cleanup = 0
  /\ file = NoFile
  /\ issued = 0
  /\ last = [op |-> "init"]
  /\ supplied_id = << >>
  /\ session_duration = duration
  /\ cleanup_interval = interval

InitStore == InitStoreWith(SessionDuration, CleanupInterval)

\* No thread, process or file besides the one store.
InitNoThreads ==
  /\ proc_of = << >>
  /\ pc = << >>
  /\ cur = << >>
  /\ mem = << >>
  /\ lock = << >>
  /\ fs_path = << >>
  /\ inode = << >>
  /\ fd = << >>
  /\ reader = << >>
  /\ pre = {}
  /\ ref = << >>
  /\ ref_ver = 0
  /\ file_ver = 0
  /\ file_ok = TRUE
  /\ last_renamed = NoFile
  /\ InitWeb

Init == InitStore /\ InitNoThreads

\* What the call follows: the create_session that returned this session id,
\* a successful invalidate_session of it, or anything else.
Follows(op, sid) ==
  IF last.op = "create_session" /\ last.sid = sid THEN "create"
  ELSE IF last.op = "invalidate_session" /\ last.sid = sid /\ last.ret = RetBool(TRUE)
  THEN "invalidate" ELSE "other"

Call(op, sid, uid) ==
  [op |-> op, sid |-> sid, uid |-> uid, after |-> Follows(op, sid)]

\* The effect of an operation that returned res = [st, ret].
Commit(res, call) ==
  /\ sessions' = res.st.sessions
  /\ last_cleanup' = res.st.last_cleanup
  /\ file' = res.st.file
  /\ last' = [f \in DOMAIN call \cup {"ret"} |->
                IF f = "ret" THEN res.ret ELSE call[f]]
  /\ UNCHANGED <<session_duration, cleanup_interval>>
  /\ UNCHANGED <<fsVars, webVars>>

\* The history keeps the entries of the records still in the map.
KeepSupplied ==
  supplied_id' = [s \in DOMAIN sessions' \cap DOMAIN supplied_id |-> supplied_id[s]]

Tick ==
  /\ now < MaxTime
  /\ now' = now + 1
  /\ last' = [op |-> "tick"]
  /\ UNCHANGED <<sessions, last_cleanup, file, issued, supplied_id>>
  /\ UNCHANGED <<session_duration, cleanup_interval>>
  /\ UNCHANGED <<fsVars, webVars>>

\* create_session called with one of the claim bundles of D.
CreateSessionFrom(D) ==
  /\ issued < MaxSessions
  /\ \E user_data \in D :
       LET sid == _generate_session_id(issued + 1)
           res == create_session(Store, user_data, sid,
                                 _generate_user_id(issued + 1), now)
           uid == Get(user_data, "id", EmptyId)
           call == [op |-> "create_session", sid |-> sid, uid |-> uid,
                    after |-> Follows("create_session", sid),
                    email |-> Get(user_data, "email", "")]
       IN /\ Commit(res, call)
          /\ issued' = issued + 1
          /\ supplied_id' = [s \in DOMAIN sessions' |->
                               IF s = sid THEN uid ELSE supplied_id[s]]
  /\ UNCHANGED now

CreateSession == CreateSessionFrom(UserData)

GetSession ==
  /\ \E sid \in SessionIds :
       Commit(get_session(Store, sid, now), Call("get_session", sid, EmptyId))
  /\ KeepSupplied
  /\ UNCHANGED <<now, issued>>

\* update_session called with one of the partial updates of U.
UpdateSessionWith(U) ==
  /\ \E sid \in SessionIds, updates \in U :
       Commit(update_session(Store, sid, updates, now),
              Call("update_session", sid, EmptyId))
  /\ KeepSupplied
  /\ UNCHANGED <<now, issued>>

UpdateSession == UpdateSessionWith(Updates(now))

InvalidateSession ==
  /\ \E sid \in SessionIds :
       Commit(invalidate_session(Store, sid),
              Call("invalidate_session", sid, EmptyId))
  /\ KeepSupplied
  /\ UNCHANGED <<now, issued>>

InvalidateUserSessions ==
  /\ \E user_id \in UserIds :
       Commit(invalidate_user_sessions(Store, user_id),
              Call("invalidate_user_sessions", 0, user_id))
  /\ KeepSupplied
  /\ UNCHANGED <<now, issued>>

RefreshSession ==
  /\ \E sid \in SessionIds :
       Commit(refresh_session(Store, sid, now),
              Call("refresh_session", sid, EmptyId))
  /\ KeepSupplied
  /\ UNCHANGED <<now, issued>>

CleanupExpiredSessions ==
  /\ Commit(cleanup_expired_sessions(Store, now),
            Call("cleanup_expired_sessions", 0, EmptyId))
  /\ KeepSupplied
  /\ UNCHANGED <<now, issued>>

GetUserSessions ==
  /\ \E user_id \in UserIds :
       Commit(get_user_sessions(Store, user_id, now),
              Call("get_user_sessions", 0, user_id))
  /\ KeepSupplied
  /\ UNCHANGED <<now, issued>>

\* The operations the repository's routes and middleware reach.
Next ==
  \/ Tick
  \/ CreateSession
  \/ GetSession
  \/ InvalidateSession
  \/ InvalidateUserSessions
  \/ RefreshSession
  \/ CleanupExpiredSessions
  \/ GetUserSessions

Spec == Init /\ [][Next]_vars

\* The same store with update_session, whose caller chooses the fields.
NextUpdate ==
  \/ Next
  \/ UpdateSession

SpecUpdate == Init /\ [][NextUpdate]_vars

\* The same store constructed with a session duration one tick longer, so
\* that a record can be read at an instant strictly between its creation and
\* its expiry.
InitLong == InitStoreWith(SessionDuration + 1, CleanupInterval) /\ InitNoThreads
SpecLong == InitLong /\ [][Next]_vars

\* The same store constructed with a cleanup interval one tick longer, so
\* that a record can be past its expiry, and still in the map, at an instant
\* when the throttled sweep is not yet due.
InitLazy == InitStoreWith(SessionDuration, CleanupInterval + 1) /\ InitNoThreads
SpecLazy == InitLazy /\ [][Next]_vars

\* ------------------------------------------------- threads and processes
\* Request threads call the store of their process; each process has its own
\* map and lock, and all of them share the backing file.  The clock stands
\* still while the calls run.
Threads == 1..NumThreads
Procs == 1..NumThreads
InodeIds == 1..(NumThreads + 3)

NoCall == [op |-> "none"]
NoFd == [ino |-> 0, clean |-> TRUE, doc |-> NoFile]
ReaderIdle == [pc |-> "idle", ino |-> 0, obs |-> "none"]

\* self.store_file.
store_file == "live"
\* Writing the backing file in place, with no temporary.
temp_file_in_place == store_file
\* self.store_file.with_suffix('.tmp'): one fixed name next to the backing
\* file, the same for every thread and process.
temp_file == "tmp"

\* File contents: a complete JSON document (Serialize), nothing at all (a file
\* just created or truncated), or bytes json.load cannot parse.
FreeInode == [kind |-> "free", size |-> 0]
EmptyFile == [kind |-> "empty", size |-> 0]
PartialFile(n) == [kind |-> "partial", size |-> n]

MaxOf(a, b) == IF a >= b THEN a ELSE b

Referenced(i, paths, fds, rd) ==
  \/ \E p \in DOMAIN paths : paths[p] = i
  \/ \E t \in DOMAIN fds : fds[t].ino = i
  \/ rd.ino = i

\* An inode nobody names or holds open is gone.
Reclaim(ino, paths, fds, rd) ==
  [i \in InodeIds |-> IF Referenced(i, paths, fds, rd) THEN ino[i] ELSE FreeInode]

NewInode == CHOOSE i \in InodeIds :
  /\ ~Referenced(i, fs_path, fd, reader)
  /\ \A j \in InodeIds : j < i => Referenced(j, fs_path, fd, reader)

\* flock: the threads holding LOCK_EX on an inode, and whether the loading
\* process holds LOCK_SH on it.
HoldsEx(t, i) == fd[t].ino = i /\ pc[t] \in {"dump", "fsync", "unlock"}
HoldsSh(i) == reader.ino = i /\ reader.pc \in {"read", "unlock"}

\* _load_sessions once the file is open and locked: json.load, then
\* _clean_expired; a file that does not parse gives the empty map.
_load_sessions(content, t) ==
  IF content.kind = "json" THEN _clean_expired(content.data, t) ELSE << >>

\* The store a process starts from: nothing, or one session persisted earlier.
FirstSession ==
  create_session([sessions |-> << >>, last_cleanup |-> 0, file |-> NoFile],
                 DataA, _generate_session_id(1), _generate_user_id(1), 0).st.sessions
InitialMaps == {<< >>, FirstSession}

InitThreads(procOf) ==
  /\ now = 0
  /\ sessions = << >>
  /\ last_cleanup = 0
  /\ file = NoFile
  /\ last = [op |-> "init"]
  /\ supplied_id = << >>
  /\ session_duration = SessionDuration
  /\ cleanup_interval = CleanupInterval
  /\ InitWeb
  /\ proc_of = procOf
  /\ pc = [t \in Threads |-> "idle"]
  /\ cur = [t \in Threads |-> NoCall]
  /\ lock = [p \in Procs |-> 0]
  /\ fd = [t \in Threads |-> NoFd]
  /\ reader = ReaderIdle
  /\ ref_ver = 0
  /\ file_ver = 0
  /\ file_ok = TRUE
  /\ \E m \in InitialMaps :
       /\ issued = Cardinality(DOMAIN m)
       /\ pre = DOMAIN m
       /\ ref = m
       /\ mem = [p \in Procs |-> m]
       /\ fs_path = [p \in {store_file, "tmp"} |->
                       IF p = store_file /\ m # << >> THEN 1 ELSE 0]
       /\ inode = [i \in InodeIds |->
                     IF i = 1 /\ m # << >> THEN Serialize(m) ELSE FreeInode]
       /\ last_renamed = IF m = << >> THEN NoFile ELSE Serialize(m)

\* The calls a thread may make: a login; a lookup, refresh or logout of a
\* session id; a logout of all sessions of a user.
ThreadCalls(t) ==
  {[op |-> "create_session", sid |-> _generate_session_id(issued + 1),
    data |-> IF t % 2 = 1 THEN DataB ELSE DataA]}
  \cup {[op |-> o, sid |-> s, data |-> [id |-> EmptyId]] :
          o \in {"get_session", "refresh_session", "invalidate_session"},
          s \in 1..MaxOf(issued, 1)}
  \cup {[op |-> "invalidate_user_sessions", sid |-> 0, data |-> [id |-> UserA]]}

\* The body of the called method, from `with self._lock:` to its return, on
\* the store st.
RunCallOn(call, st) ==
  CASE call.op = "create_session" ->
         create_session(st, call.data, call.sid, _generate_user_id(call.sid), now)
    [] call.op = "get_session" -> get_session(st, call.sid, now)
    [] call.op = "refresh_session" -> refresh_session(st, call.sid, now)
    [] call.op = "invalidate_session" -> invalidate_session(st, call.sid)
    [] call.op = "invalidate_user_sessions" ->
         invalidate_user_sessions(st, call.data.id)

\* The same on the map m of a store that has just swept.
RunCall(call, m) ==
  RunCallOn(call, [sessions |-> m, last_cleanup |-> now, file |-> NoFile])

\* A lock that never makes a thread wait.
LockAvailable_always(p, t) == TRUE
\* A variant: threading.Lock, which its owner cannot take again.
LockAvailable_plain(p, t) == lock[p] = 0
\* threading.RLock: free, or already held by the calling thread.
LockAvailable(p, t) == lock[p] \in {0, t}

\* `with self._lock:` entered.  The history variables run the call on the
\* reference map at this instant.
Acquire(t) ==
  /\ pc[t] = "idle"
  /\ LockAvailable(proc_of[t], t)
  /\ \E call \in ThreadCalls(t) :
       LET r == RunCall(call, ref)
           flushes == r.st.file # NoFile
       IN /\ cur' = [cur EXCEPT ![t] =
                       [op |-> call.op, sid |-> call.sid, data |-> call.data,
                        ret |-> RetNone, want |-> r.ret,
                        ver |-> IF flushes THEN ref_ver + 1 ELSE 0,
                        doc |-> r.st.file, flushed |-> "no"]]
          /\ ref' = r.st.sessions
          /\ ref_ver' = IF flushes THEN ref_ver + 1 ELSE ref_ver
          /\ issued' = IF call.op = "create_session" THEN issued + 1 ELSE issued
  /\ lock' = [lock EXCEPT ![proc_of[t]] = t]
  /\ pc' = [pc EXCEPT ![t] = "body"]
  /\ UNCHANGED <<now, sessions, last_cleanup, file, last, supplied_id,
                 session_duration, cleanup_interval>>
  /\ UNCHANGED <<proc_of, mem, fs_path, inode, fd, reader, pre, file_ver,
                 file_ok, last_renamed>>
  /\ UNCHANGED webVars

\* The method body up to its call of _save_sessions, if it makes one.
Body(t) ==
  /\ pc[t] = "body"
  /\ LET res == RunCall(cur[t], mem[proc_of[t]])
     IN /\ mem' = [mem EXCEPT ![proc_of[t]] = res.st.sessions]
        /\ cur' = [cur EXCEPT ![t].ret = res.ret]
        /\ pc' = [pc EXCEPT ![t] = IF res.st.file # NoFile THEN "open" ELSE "release"]
  /\ UNCHANGED <<storeVars, webVars>>
  /\ UNCHANGED <<proc_of, lock, fs_path, inode, fd, reader, pre, ref, ref_ver,
                 file_ver, file_ok, last_renamed>>

\* The method returns and the lock is released.
Release(t) ==
  /\ pc[t] = "release"
  /\ lock' = [lock EXCEPT ![proc_of[t]] = 0]
  /\ pc' = [pc EXCEPT ![t] = "done"]
  /\ UNCHANGED <<storeVars, webVars>>
  /\ UNCHANGED <<proc_of, cur, mem, fs_path, inode, fd, reader, pre, ref,
                 ref_ver, file_ver, file_ok, last_renamed>>

\* ---------------------------------------------------------- _save_sessions
\* A variant: the error of the flush reaches the caller of the method.
AfterSaveError_raised(ret) == RetRaise("OSError")
\* `except Exception as e: print(...)`: _save_sessions returns normally and
\* the method returns the result it had computed.
AfterSaveError(ret) == ret

\* open(temp_file, 'w'): creates the file, or truncates the one of that name;
\* no lock is held yet.  A writer caught in the middle of its dump no longer
\* produces its document.
FlushOpen(t) ==
  /\ pc[t] = "open"
  /\ LET existing == fs_path[temp_file]
         i == IF existing # 0 THEN existing ELSE NewInode
     IN /\ fs_path' = [fs_path EXCEPT ![temp_file] = i]
        /\ inode' = [inode EXCEPT ![i] = EmptyFile]
        /\ fd' = [u \in Threads |->
                    IF u = t THEN [ino |-> i, clean |-> TRUE, doc |-> NoFile]
                    ELSE IF fd[u].ino = i /\ pc[u] = "fsync"
                         THEN [fd[u] EXCEPT !.clean = FALSE]
                         ELSE fd[u]]
  /\ pc' = [pc EXCEPT ![t] = "flock"]
  /\ UNCHANGED <<storeVars, webVars>>
  /\ UNCHANGED <<proc_of, cur, mem, lock, reader, pre, ref, ref_ver, file_ver,
                 file_ok, last_renamed>>

\* fcntl.flock(f.fileno(), LOCK_EX): waits for every other lock on the file.
FlushLock(t) ==
  /\ pc[t] = "flock"
  /\ \A u \in Threads \ {t} : ~HoldsEx(u, fd[t].ino)
  /\ ~HoldsSh(fd[t].ino)
  /\ pc' = [pc EXCEPT ![t] = "dump"]
  /\ UNCHANGED <<storeVars, webVars>>
  /\ UNCHANGED <<proc_of, cur, mem, lock, fs_path, inode, fd, reader, pre, ref,
                 ref_ver, file_ver, file_ok, last_renamed>>

\* json.dump starts writing at offset 0; bytes already in the file beyond the
\* end of the document stay there.
FlushDump(t) ==
  /\ pc[t] = "dump"
  /\ LET i == fd[t].ino
         doc == Serialize(mem[proc_of[t]])
     IN /\ fd' = [fd EXCEPT ![t] =
                    [ino |-> i, clean |-> inode[i].size <= doc.size, doc |-> doc]]
        /\ inode' = [inode EXCEPT ![i] = PartialFile(MaxOf(inode[i].size, doc.size))]
  /\ pc' = [pc EXCEPT ![t] = "fsync"]
  /\ UNCHANGED <<storeVars, webVars>>
  /\ UNCHANGED <<proc_of, cur, mem, lock, fs_path, reader, pre, ref, ref_ver,
                 file_ver, file_ok, last_renamed>>

\* The rest of the document is written, f.flush() and fsync.
FlushSync(t) ==
  /\ pc[t] = "fsync"
  /\ LET i == fd[t].ino
     IN inode' = [inode EXCEPT ![i] =
                    IF fd[t].clean THEN fd[t].doc
                    ELSE PartialFile(MaxOf(inode[i].size, fd[t].doc.size))]
  /\ pc' = [pc EXCEPT ![t] = "unlock"]
  /\ UNCHANGED <<storeVars, webVars>>
  /\ UNCHANGED <<proc_of, cur, mem, lock, fs_path, fd, reader, pre, ref, ref_ver,
                 file_ver, file_ok, last_renamed>>

\* flock(LOCK_UN) and the end of the `with open` block.
FlushUnlock(t) ==
  /\ pc[t] = "unlock"
  /\ fd' = [fd EXCEPT ![t] = NoFd]
  /\ inode' = Reclaim(inode, fs_path, fd', reader)
  /\ pc' = [pc EXCEPT ![t] = "rename"]
  /\ UNCHANGED <<storeVars, webVars>>
  /\ UNCHANGED <<proc_of, cur, mem, lock, fs_path, reader, pre, ref, ref_ver,
                 file_ver, file_ok, last_renamed>>

\* temp_file.replace(self.store_file).  With no file of the temporary name the
\* rename raises FileNotFoundError, which _save_sessions catches and prints.
FlushRename(t) ==
  /\ pc[t] = "rename"
  /\ LET src == fs_path[temp_file]
         moved == [[fs_path EXCEPT ![temp_file] = 0] EXCEPT ![store_file] = src]
     IN IF src = 0
        THEN /\ cur' = [cur EXCEPT ![t].ret = AfterSaveError(cur[t].ret),
                                   ![t].flushed = "failed"]
             /\ UNCHANGED <<fs_path, inode, file_ver, file_ok, last_renamed>>
        ELSE /\ cur' = [cur EXCEPT ![t].flushed = "ok"]
             /\ fs_path' = moved
             /\ inode' = Reclaim(inode, moved, fd, reader)
             /\ last_renamed' = inode[src]
             /\ file_ver' = cur[t].ver
             /\ file_ok' = (file_ok /\ inode[src] = cur[t].doc
                                    /\ cur[t].ver = file_ver + 1)
  /\ pc' = [pc EXCEPT ![t] = "release"]
  /\ UNCHANGED <<storeVars, webVars>>
  /\ UNCHANGED <<proc_of, mem, lock, fd, reader, pre, ref, ref_ver>>

\* An exception inside _save_sessions (the open, a write, the fsync or the
\* rename fails): the finally clause unlocks, the file is closed, the except
\* clause prints, and the method goes on; the rename is not reached.
Interrupt(t) ==
  /\ pc[t] \in {"open", "flock", "dump", "fsync", "unlock", "rename"}
  /\ fd' = [fd EXCEPT ![t] = NoFd]
  /\ inode' = Reclaim(inode, fs_path, fd', reader)
  /\ cur' = [cur EXCEPT ![t].ret = AfterSaveError(cur[t].ret),
                        ![t].flushed = "failed"]
  /\ pc' = [pc EXCEPT ![t] = "release"]
  /\ UNCHANGED <<storeVars, webVars>>
  /\ UNCHANGED <<proc_of, mem, lock, fs_path, reader, pre, ref, ref_ver,
                 file_ver, file_ok, last_renamed>>

\* The process is killed in the middle of a call and started again: its
\* calls never return, its files are closed, and the new store loads the
\* backing file.
Crash(p) ==
  /\ \E t \in Threads : proc_of[t] = p /\ pc[t] \notin {"idle", "done"}
  /\ LET killed == {t \in Threads : proc_of[t] = p /\ pc[t] \notin {"idle", "done"}}
         live == fs_path[store_file]
     IN /\ pc' = [t \in Threads |-> IF t \in killed THEN "done" ELSE pc[t]]
        /\ cur' = [t \in Threads |-> IF t \in killed THEN NoCall ELSE cur[t]]
        /\ fd' = [t \in Threads |-> IF t \in killed THEN NoFd ELSE fd[t]]
        /\ inode' = Reclaim(inode, fs_path, fd', reader)
        /\ mem' = [mem EXCEPT ![p] =
                     IF live = 0 THEN << >> ELSE _load_sessions(inode[live], now)]
  /\ lock' = [lock EXCEPT ![p] = 0]
  /\ UNCHANGED <<storeVars, webVars>>
  /\ UNCHANGED <<proc_of, fs_path, reader, pre, ref, ref_ver, file_ver, file_ok,
                 last_renamed>>

\* ----------------------------------------------------------- _load_sessions
\* Another process constructs its store: open(store_file, 'r') ...
ReaderOpen ==
  /\ reader.pc = "idle"
  /\ fs_path[store_file] # 0
  /\ reader' = [pc |-> "flock", ino |-> fs_path[store_file], obs |-> "none"]
  /\ UNCHANGED <<storeVars, webVars>>
  /\ UNCHANGED <<proc_of, pc, cur, mem, lock, fs_path, inode, fd, pre, ref,
                 ref_ver, file_ver, file_ok, last_renamed>>

\* ... fcntl.flock(f.fileno(), LOCK_SH) ...
ReaderLock ==
  /\ reader.pc = "flock"
  /\ \A t \in Threads : ~HoldsEx(t, reader.ino)
  /\ reader' = [reader EXCEPT !.pc = "read"]
  /\ UNCHANGED <<storeVars, webVars>>
  /\ UNCHANGED <<proc_of, pc, cur, mem, lock, fs_path, inode, fd, pre, ref,
                 ref_ver, file_ver, file_ok, last_renamed>>

\* ... json.load(f) ...
ReaderRead ==
  /\ reader.pc = "read"
  /\ reader' = [reader EXCEPT !.pc = "unlock", !.obs = inode[reader.ino].kind]
  /\ UNCHANGED <<storeVars, webVars>>
  /\ UNCHANGED <<proc_of, pc, cur, mem, lock, fs_path, inode, fd, pre, ref,
                 ref_ver, file_ver, file_ok, last_renamed>>

\* ... flock(LOCK_UN) and close.
ReaderUnlock ==
  /\ reader.pc = "unlock"
  /\ reader' = [reader EXCEPT !.pc = "idle", !.ino = 0]
  /\ inode' = Reclaim(inode, fs_path, fd, reader')
  /\ UNCHANGED <<storeVars, webVars>>
  /\ UNCHANGED <<proc_of, pc, cur, mem, lock, fs_path, fd, pre, ref, ref_ver,
                 file_ver, file_ok, last_renamed>>

\* ----------------------------------------------------------- specifications
ThreadStep(t) ==
  \/ Acquire(t)
  \/ Body(t)
  \/ FlushOpen(t)
  \/ FlushLock(t)
  \/ FlushDump(t)
  \/ FlushSync(t)
  \/ FlushUnlock(t)
  \/ FlushRename(t)
  \/ Release(t)

\* NumThreads request threads of one process.
NextThreads == \E t \in Threads : ThreadStep(t)
SpecThreads == InitThreads([t \in Threads |-> 1]) /\ [][NextThreads]_vars

\* One process whose flushes may fail and which may be killed.
NextCrash ==
  \/ \E t \in Threads : ThreadStep(t)
  \/ \E t \in Threads : Interrupt(t)
  \/ Crash(1)
SpecCrash == InitThreads([t \in Threads |-> 1]) /\ [][NextCrash]_vars

\* One process whose flushes may fail; the process keeps running.
NextFail ==
  \/ \E t \in Threads : ThreadStep(t)
  \/ \E t \in Threads : Interrupt(t)
SpecFail == InitThreads([t \in Threads |-> 1]) /\ [][NextFail]_vars

\* NumThreads processes of one thread each, and a process loading the file.
NextProcs ==
  \/ \E t \in Threads : ThreadStep(t)
  \/ ReaderOpen
  \/ ReaderLock
  \/ ReaderRead
  \/ ReaderUnlock
SpecProcs == InitThreads([t \in Threads |-> t]) /\ [][NextProcs]_vars

\* --------------------------------------------------------------- loading
\* What a backing file found at construction may hold under a session id: a
\* record as create_session wrote it, the same record inactive, long-lived,
\* with an expires_at that is no timestamp or with none at all, an object
\* with nothing but a future expires_at, and a value that is no object.
WrittenEntry(s) ==
  create_session([sessions |-> << >>, last_cleanup |-> 0, file |-> NoFile],
                 DataA, s, _generate_user_id(s), 0).st.sessions[s]

WithoutField(r, f) == [g \in DOMAIN r \ {f} |-> r[g]]

FileEntries(s) ==
  { WrittenEntry(s),
    [WrittenEntry(s) EXCEPT !.active = FALSE],
    [WrittenEntry(s) EXCEPT !.expires_at = isoformat(MaxTime + 1)],
    [WrittenEntry(s) EXCEPT !.expires_at = BadText],
    WithoutField(WrittenEntry(s), "expires_at"),
    [expires_at |-> isoformat(MaxTime + 1)],
    JsonScalar("junk") }

\* The documents with such entries.
FileMaps ==
  UNION { {m \in [S -> UNION {FileEntries(s) : s \in S}] :
             \A s \in S : m[s] \in FileEntries(s)} : S \in SUBSET SessionIds }

\* The files a starting process may find: none, a complete document, an
\* empty file, a file cut short.
FoundFiles == {NoFile, EmptyFile, PartialFile(1)} \cup {Serialize(m) : m \in FileMaps}

InitLoad ==
  /\ session_duration = SessionDuration
  /\ cleanup_interval = CleanupInterval
  /\ now \in Times
  /\ sessions = << >>
  /\ last_cleanup = now
  /\ file \in FoundFiles
  /\ issued = 0
  /\ last = [op |-> "init"]
  /\ supplied_id = << >>
  /\ InitNoThreads

\* __init__ calls _load_sessions; every exception is caught inside it.
LoadSessions ==
  /\ last.op = "init"
  /\ sessions' = _load_sessions(file, now)
  /\ last' = [op |-> "_load_sessions", ret |-> RetNone]
  /\ UNCHANGED <<now, last_cleanup, file, issued, supplied_id,
                 session_duration, cleanup_interval>>
  /\ UNCHANGED <<fsVars, webVars>>

SpecLoad == InitLoad /\ [][LoadSessions]_vars

\* ------------------------------------------------------- any identity claims
\* create_session called directly, with claims that may lack the user id, the
\* email or both.
LooseUserData ==
  { DataA, DataB,
    WithoutField(DataA, "id"),
    WithoutField(DataA, "email"),
    [DataA EXCEPT !.id = EmptyId],
    [login_method |-> "email"] }

CreateSessionLoose == CreateSessionFrom(LooseUserData)

NextLoose ==
  \/ Tick
  \/ CreateSessionLoose
  \/ GetSession
  \/ InvalidateSession

SpecLoose == Init /\ [][NextLoose]_vars

\* ------------------------------------------------------- damaged records
\* update_session lets its caller overwrite any field: here it switches a
\* record off or puts a text that is no timestamp into expires_at, and the
\* sweep finds expired, inactive and malformed records.
DamagingUpdates == {[active |-> FALSE], [expires_at |-> BadText]}

UpdateSessionDamaging == UpdateSessionWith(DamagingUpdates)

NextSweep ==
  \/ Tick
  \/ CreateSession
  \/ UpdateSessionDamaging
  \/ CleanupExpiredSessions

SpecSweep == Init /\ [][NextSweep]_vars

\* ------------------------------------------------------------- middleware
\* len() of the two parts of a user identifier text.
PfxLen(pfx) == IF pfx = "user-" THEN 5 ELSE 0
RestLen(rest) ==
  IF rest = "" THEN 0
  ELSE IF rest = "a" THEN 1
  ELSE IF rest = "u1" THEN 2
  ELSE IF rest \in {"alice", "bobby"} THEN 5
  ELSE 16

\* UserResponse.validate_user_id: the id starts with "user-" and has at
\* least 10 characters.
validate_user_id(v) == v.pfx = "user-" /\ PfxLen(v.pfx) + RestLen(v.rest) >= 10

\* The users the authentication service hands to login_user_session: each
\* is a UserResponse, so its id passed validate_user_id.
Alice ==
  [kind |-> "user", id |-> UserIdText("user-", "alice"),
   email |-> "alice@x.test", full_name |-> "Alice", company_name |-> NoneVal,
   startup_stage |-> NoneVal, avatar_url |-> "a.png",
   created_at |-> 0, last_sign_in_at |-> 0]
Bobby ==
  [kind |-> "user", id |-> UserIdText("user-", "bobby"),
   email |-> "bobby@x.test", full_name |-> "", company_name |-> "Co",
   startup_stage |-> "seed", avatar_url |-> NoneVal,
   created_at |-> 0, last_sign_in_at |-> 0]
WebUsers == {Alice, Bobby}

\* request_info of a login: what the route read off the request.
RequestInfos ==
  {[login_method |-> "google", ip_address |-> "10.0.0.2", user_agent |-> "ua2"]}

\* A request path as the pieces of its text, cut so that one path's text
\* starts with another's exactly when its pieces start with the other's.
StartsWith(p, q) == Len(q) <= Len(p) /\ SubSeq(p, 1, Len(q)) = q
skip_paths ==
  { <<"/auth", "/login">>, <<"/auth", "/signup">>,
    <<"/auth", "/reset-password">>, <<"/auth", "/google">>,
    <<"/auth", "/callback">>, <<"/auth", "/debug">>, <<"/auth", "/test">>,
    <<"/auth", "/health">>, <<"/auth", "/static", "/">>, <<"/static", "/">>,
    <<"/favicon.ico">> }
RequestPaths ==
  { <<"/">>, <<"/auth", "/profile">>, <<"/auth", "/logout">>,
    <<"/auth", "/login">>, <<"/auth", "/login", "-success">>,
    <<"/static", "/", "app.js">> }

_should_skip_auth(path) == \E q \in skip_paths : StartsWith(path, q)

\* A variant: session.clear() leaves the keys in place.
session_clear_keep(ck) == ck
\* session.clear().
session_clear(ck) == EmptyCookie

\* The keys _get_current_user reads with session_data[...].
RequiredKeys ==
  {"user_id", "user_email", "user_name", "created_at", "last_accessed"}

\* UserResponse(...) over a record raises nothing: the keys are there, the
\* id passes validate_user_id, the email is a text, both instants parse.
BuildsUser(r) ==
  /\ RequiredKeys \subseteq DOMAIN r
  /\ validate_user_id(r.user_id)
  /\ r.user_email # NoneVal
  /\ IsIso(r.created_at)
  /\ IsIso(r.last_accessed)

UserResponse(r) ==
  [kind |-> "user", id |-> r.user_id, email |-> r.user_email,
   full_name |-> IF r.user_name \in {"", NoneVal} THEN "User" ELSE r.user_name,
   company_name |-> Get(r, "company_name", NoneVal),
   startup_stage |-> Get(r, "startup_stage", NoneVal),
   avatar_url |-> Get(r, "avatar_url", NoneVal),
   created_at |-> fromisoformat(r.created_at),
   last_sign_in_at |-> fromisoformat(r.last_accessed)]

\* _get_current_user(): the store after its get_session, the cookie, and
\* the user or None.
_get_current_user(st, ck, t) ==
  LET session_id == Get(ck, "session_id", NoSessionId)
  IN IF session_id = NoSessionId
     THEN [st |-> st, cookie |-> ck, user |-> NoUser]
     ELSE LET res == get_session(st, session_id, t)
          IN IF res.ret.kind # "rec"
             THEN [st |-> res.st, cookie |-> session_clear(ck),
                   user |-> NoUser]
             ELSE LET session_data == res.st.sessions[session_id]
                  IN IF BuildsUser(session_data)
                     THEN [st |-> res.st, cookie |-> ck,
                           user |-> UserResponse(session_data)]
                     ELSE [st |-> res.st, cookie |-> ck, user |-> NoUser]

before_request(st, ck, path, t) ==
  IF _should_skip_auth(path)
  THEN [st |-> st, cookie |-> ck, g |-> Unauthenticated]
  ELSE LET u == _get_current_user(st, ck, t)
       IN [st |-> u.st, cookie |-> u.cookie,
           g |-> IF u.user.kind = "user"
                 THEN [current_user |-> u.user, is_authenticated |-> TRUE]
                 ELSE Unauthenticated]

\* A variant: the session the cookie referenced is invalidated first.
login_user_session_rotating(st, ck, user, remember, request_info, sid, gen_uid, t) ==
  LET ck1 == session_clear(ck)
      user_data ==
        [id |-> user.id, email |-> user.email, full_name |-> user.full_name,
         company_name |-> user.company_name,
         startup_stage |-> user.startup_stage,
         avatar_url |-> user.avatar_url,
         login_method |-> Get(request_info, "login_method", "email"),
         ip_address |-> Get(request_info, "ip_address", NoneVal),
         user_agent |-> Get(request_info, "user_agent", NoneVal)]
      prior == Get(ck, "session_id", NoSessionId)
      st0 == IF prior = NoSessionId THEN st
             ELSE invalidate_session(st, prior).st
      res == create_session(st0, user_data, sid, gen_uid, t)
      session_data == res.st.sessions[sid]
  IN [st |-> res.st,
      cookie |-> [k \in DOMAIN ck1 \cup
                        {"session_id", "user_id", "is_authenticated",
                         "_permanent"} |->
                    IF k = "session_id" THEN session_data.session_id
                    ELSE IF k = "user_id" THEN session_data.user_id
                    ELSE IF k \in {"is_authenticated", "_permanent"} THEN TRUE
                    ELSE ck1[k]],
      g |-> [current_user |-> user, is_authenticated |-> TRUE]]

\* session.permanent = True stores the key "_permanent" in the session; the
\* argument remember is not read.
login_user_session(st, ck, user, remember, request_info, sid, gen_uid, t) ==
  LET ck1 == session_clear(ck)
      user_data ==
        [id |-> user.id, email |-> user.email, full_name |-> user.full_name,
         company_name |-> user.company_name,
         startup_stage |-> user.startup_stage,
         avatar_url |-> user.avatar_url,
         login_method |-> Get(request_info, "login_method", "email"),
         ip_address |-> Get(request_info, "ip_address", NoneVal),
         user_agent |-> Get(request_info, "user_agent", NoneVal)]
      res == create_session(st, user_data, sid, gen_uid, t)
      session_data == res.st.sessions[sid]
  IN [st |-> res.st,
      cookie |-> [k \in DOMAIN ck1 \cup
                        {"session_id", "user_id", "is_authenticated",
                         "_permanent"} |->
                    IF k = "session_id" THEN session_data.session_id
                    ELSE IF k = "user_id" THEN session_data.user_id
                    ELSE IF k \in {"is_authenticated", "_permanent"} THEN TRUE
                    ELSE ck1[k]],
      g |-> [current_user |-> user, is_authenticated |-> TRUE]]

logout_user_session(st, ck) ==
  LET session_id == Get(ck, "session_id", NoSessionId)
  IN [st |-> IF session_id # NoSessionId
             THEN invalidate_session(st, session_id).st ELSE st,
      cookie |-> session_clear(ck),
      g |-> Unauthenticated]

\* The effect of a step of the Flask side that returned res = [st, cookie, g].
WebCommit(res, call) ==
  /\ sessions' = res.st.sessions
  /\ last_cleanup' = res.st.last_cleanup
  /\ file' = res.st.file
  /\ cookie' = res.cookie
  /\ flask_g' = res.g
  /\ last' = call
  /\ UNCHANGED <<now, session_duration, cleanup_interval>>
  /\ UNCHANGED <<reqs, attempts, lim, recorded, lost, failed>>
  /\ UNCHANGED fsVars

LoginUserSession ==
  /\ issued < MaxSessions
  /\ \E user \in WebUsers, remember \in BOOLEAN,
        request_info \in RequestInfos :
       LET sid == _generate_session_id(issued + 1)
       IN /\ WebCommit(login_user_session(Store, cookie, user, remember,
                                          request_info, sid,
                                          _generate_user_id(issued + 1), now),
                       [op |-> "login_user_session", sid |-> sid,
                        uid |-> user.id, remember |-> remember])
          /\ issued' = issued + 1
          /\ supplied_id' = [s \in DOMAIN sessions' |->
                               IF s = sid THEN user.id ELSE supplied_id[s]]
          /\ jar' = jar \cup {[cookie |-> cookie', owner |-> user]}
          /\ UNCHANGED logged_out

LogoutUserSession ==
  /\ WebCommit(logout_user_session(Store, cookie),
               [op |-> "logout_user_session",
                sid |-> Get(cookie, "session_id", NoSessionId)])
  /\ logged_out' = logged_out \cup
                     ({Get(cookie, "session_id", NoSessionId)} \ {NoSessionId})
  /\ KeepSupplied
  /\ UNCHANGED <<issued, jar>>

BeforeRequest ==
  /\ \E path \in RequestPaths :
       WebCommit(before_request(Store, cookie, path, now),
                 [op |-> "before_request", path |-> path,
                  skipped |-> _should_skip_auth(path),
                  sid |-> Get(cookie, "session_id", NoSessionId)])
  /\ KeepSupplied
  /\ UNCHANGED <<issued, jar, logged_out>>

\* One browser against the application: it logs in, sends requests, logs
\* out, and time passes.
NextWeb ==
  \/ Tick
  \/ LoginUserSession
  \/ LogoutUserSession
  \/ BeforeRequest

SpecWeb == Init /\ [][NextWeb]_vars

\* The browser sends a cookie it received earlier: the cookie is signed, not
\* revoked, and comes back as it went out.
PresentCookie ==
  /\ \E sent \in jar : cookie' = sent.cookie
  /\ last' = [op |-> "cookie"]
  /\ UNCHANGED <<now, sessions, last_cleanup, file, issued, supplied_id,
                 session_duration, cleanup_interval>>
  /\ UNCHANGED <<flask_g, jar, logged_out, reqs, attempts, lim, recorded,
                 lost, failed>>
  /\ UNCHANGED fsVars

NextReplay ==
  \/ NextWeb
  \/ PresentCookie

SpecReplay == Init /\ [][NextReplay]_vars

\* ------------------------------------------------------ concurrent requests
\* A variant: one context shared by every request.
ContextOf_shared(r) == 1
\* flask.g is bound to the application context of the request at hand.
ContextOf(r) == r

\* The path of the concurrent requests: one that is not skipped.
ConcurrentPaths == { <<"/auth", "/profile">> }

\* What a browser may send: no session, or a cookie the application sent out.
Sendable == {[cookie |-> EmptyCookie, owner |-> NoUser]} \cup jar

\* The effect of a request's step on the store.
ReqStore(st) ==
  /\ sessions' = st.sessions
  /\ last_cleanup' = st.last_cleanup
  /\ file' = st.file
  /\ KeepSupplied
  /\ UNCHANGED <<now, issued, session_duration, cleanup_interval>>
  /\ UNCHANGED <<cookie, flask_g, jar, logged_out, attempts, lim, recorded,
                 lost, failed>>
  /\ UNCHANGED fsVars

\* A request arrives on a free thread: Flask opens its session from the
\* cookie, and before_request runs up to its call of _get_current_user.
ReqBegin(r) ==
  /\ reqs[r].pc = "idle"
  /\ \E sent \in Sendable, path \in ConcurrentPaths :
       reqs' = [[reqs EXCEPT ![r] =
                   [pc |-> IF _should_skip_auth(path) THEN "done" ELSE "lookup",
                    path |-> path, sent |-> sent, session |-> sent.cookie,
                    g |-> Unauthenticated, user |-> NoUser]]
                EXCEPT ![ContextOf(r)].g = Unauthenticated]
  /\ last' = [op |-> "request"]
  /\ ReqStore(Store)

\* _get_current_user: get_session runs under the store's lock.
ReqLookup(r) ==
  /\ reqs[r].pc = "lookup"
  /\ LET u == _get_current_user(Store, reqs[r].session, now)
     IN /\ reqs' = [reqs EXCEPT ![r].pc = "attach",
                                ![r].session = u.cookie,
                                ![r].user = u.user]
        /\ ReqStore(u.st)
  /\ last' = [op |-> "request"]

\* before_request after _get_current_user returned.
ReqAttach(r) ==
  /\ reqs[r].pc = "attach"
  /\ reqs' = [reqs EXCEPT
                ![r].pc = "done",
                ![r].user = NoUser,
                ![ContextOf(r)].g =
                   IF reqs[r].user.kind = "user"
                   THEN [current_user |-> reqs[r].user,
                         is_authenticated |-> TRUE]
                   ELSE @]
  /\ last' = [op |-> "request"]
  /\ ReqStore(Store)

\* The response is sent and the thread is free again.
ReqEnd(r) ==
  /\ reqs[r].pc = "done"
  /\ reqs' = [reqs EXCEPT ![r] = IdleReq]
  /\ last' = [op |-> "request"]
  /\ ReqStore(Store)

RequestStep ==
  \E r \in Requests :
    \/ ReqBegin(r)
    \/ ReqLookup(r)
    \/ ReqAttach(r)
    \/ ReqEnd(r)

\* Browsers log in and out while other requests are in flight.
NextRequests ==
  \/ LoginUserSession
  \/ LogoutUserSession
  \/ RequestStep

SpecRequests == Init /\ [][NextRequests]_vars

\* ------------------------------------------------------------ route guards
\* A URL as the pieces of its text: separators and the runs between them.
\* urllib.parse.quote(url) leaves letters, digits, "_.-~" and "/" alone and
\* writes every other character as %XX.
QuotePiece(c) ==
  IF c = ":" THEN "%3A"
  ELSE IF c = "?" THEN "%3F"
  ELSE IF c = "=" THEN "%3D"
  ELSE IF c = "&" THEN "%26"
  ELSE IF c = "%20" THEN "%2520"
  ELSE c
\* A variant: the URL is put into the query unquoted.
quote_plain(url) == url
quote(url) == [i \in 1..Len(url) |-> QuotePiece(url[i])]

\* urllib.parse.unquote: every %XX becomes its character again.
UnquotePiece(c) ==
  IF c = "%3A" THEN ":"
  ELSE IF c = "%3F" THEN "?"
  ELSE IF c = "%3D" THEN "="
  ELSE IF c = "%26" THEN "&"
  ELSE IF c = "%2520" THEN "%20"
  ELSE IF c = "%20" THEN " "
  ELSE c
unquote(text) == [i \in 1..Len(text) |-> UnquotePiece(text[i])]

\* The index of the first piece c of text from position i on, or
\* Len(text) + 1.
RECURSIVE Find(_, _, _)
Find(text, c, i) ==
  IF i > Len(text) THEN Len(text) + 1
  ELSE IF text[i] = c THEN i
  ELSE Find(text, c, i + 1)

\* request.args.get(name) as the server reads it off a URL: the query after
\* the first "?", cut at every "&", each part cut at its first "=", the
\* value unquoted; None if there is no such parameter.
RECURSIVE ArgOf(_, _)
ArgOf(query, name) ==
  IF query = << >> THEN NoneVal
  ELSE LET amp == Find(query, "&", 1)
           part == SubSeq(query, 1, amp - 1)
           eq == Find(part, "=", 1)
       IN IF SubSeq(part, 1, eq - 1) = <<name>>
          THEN unquote(SubSeq(part, eq + 1, Len(part)))
          ELSE ArgOf(SubSeq(query, amp + 1, Len(query)), name)
request_args_get(url, name) ==
  ArgOf(SubSeq(url, Find(url, "?", 1) + 1, Len(url)), name)
\* The path of a URL: what stands before the first "?".
UrlPath(url) == SubSeq(url, 1, Find(url, "?", 1) - 1)

\* request.url of the requests to /auth/profile.
ProfilePath == <<"/auth", "/profile">>
ProfileUrls ==
  { <<"http", ":", "//host">> \o ProfilePath,
    <<"http", ":", "//host">> \o ProfilePath \o
      <<"?", "tab", "=", "a", "%20", "b", "&", "next", "=", "x">> }

\* What a guard answers: the wrapped handler's own response, or its own.
Invoked == [invoked |-> TRUE]
JsonResponse(status, body) ==
  [invoked |-> FALSE, status |-> status, body |-> body]
redirect(location) ==
  [invoked |-> FALSE, status |-> 302, location |-> location]

\* login_required(f) called with the context g.
login_required(ctx, is_json, url) ==
  IF ~ctx.is_authenticated
  THEN IF is_json
       THEN JsonResponse(401, [success |-> FALSE,
                               message |-> "Authentication required",
                               error_code |-> "AUTH_REQUIRED"])
       ELSE redirect(<<"/auth", "/login", "?", "next", "=">> \o quote(url))
  ELSE Invoked

\* A GET of /auth/profile: before_request, then the guarded handler, which
\* only renders.
ProfileRequest ==
  /\ \E url \in ProfileUrls, is_json \in BOOLEAN :
       LET res == before_request(Store, cookie, ProfilePath, now)
       IN WebCommit(res, [op |-> "profile", url |-> url, is_json |-> is_json,
                          resp |-> login_required(res.g, is_json, url)])
  /\ KeepSupplied
  /\ UNCHANGED <<issued, jar, logged_out>>

NextGuard ==
  \/ Tick
  \/ LoginUserSession
  \/ LogoutUserSession
  \/ ProfileRequest

SpecGuard == Init /\ [][NextGuard]_vars

\* ------------------------------------------------------------ rate limiter
\* RateLimiter.__init__: the threshold, and the window in minutes.
max_attempts == 5
window_minutes == 15

\* request.remote_addr of the clients.
Identifiers == {"10.0.0.1", "10.0.0.2"}

\* A variant: limited only beyond the threshold.
Limited_beyond(attempts_count) == attempts_count > max_attempts
\* attempts_count >= self.max_attempts.
Limited(attempts_count) == attempts_count >= max_attempts

\* [attempt for attempt in list if attempt > window_start], the clock read
\* at minute t.
FreshOf(list, t) ==
  LET window_start == t - window_minutes
      Fresh(attempt) == attempt > window_start
  IN SelectSeq(list, Fresh)

\* A variant: the check cleans every identifier's list.
CleanedBy_all(att, identifier) == DOMAIN att
\* The identifiers whose list a check of identifier cleans.
CleanedBy(att, identifier) == {identifier} \cap DOMAIN att

\* is_rate_limited(identifier): the dict afterwards and the result.
is_rate_limited(att, identifier, t) ==
  LET att1 == [k \in DOMAIN att |->
                 IF k \in CleanedBy(att, identifier)
                 THEN FreshOf(att[k], t) ELSE att[k]]
      attempts_count == Len(Get(att1, identifier, << >>))
  IN [attempts |-> att1, ret |-> Limited(attempts_count)]

\* record_attempt(identifier): the dict afterwards.
record_attempt(att, identifier, t) ==
  LET att1 == [k \in DOMAIN att \cup {identifier} |->
                 IF k \in DOMAIN att THEN att[k] ELSE << >>]
  IN [att1 EXCEPT ![identifier] = Append(@, t)]

\* The number of attempts recorded so far, over all identifiers.
RECURSIVE TotalLen(_, _)
TotalLen(att, ids) ==
  IF ids = {} THEN 0
  ELSE LET k == CHOOSE k \in ids : TRUE
       IN Len(att[k]) + TotalLen(att, ids \ {k})
Recorded == TotalLen(recorded, DOMAIN recorded)

\* What a step of the rate limiter leaves alone.
LimFrame ==
  /\ UNCHANGED <<sessions, last_cleanup, file, issued, supplied_id,
                 session_duration, cleanup_interval>>
  /\ UNCHANGED <<cookie, flask_g, jar, logged_out, reqs>>
  /\ UNCHANGED fsVars

\* The clock, in minutes, moves on by two thirds of the window at a time,
\* up to twice the window.
ClockStep == 2 * (window_minutes \div 3)
ClockEnd == 2 * window_minutes
TickMinutes ==
  /\ now < ClockEnd
  /\ now' = now + ClockStep
  /\ last' = [op |-> "tick"]
  /\ UNCHANGED <<attempts, lim, recorded, lost, failed>>
  /\ LimFrame

IsRateLimited ==
  /\ \E identifier \in Identifiers :
       LET res == is_rate_limited(attempts, identifier, now)
       IN /\ attempts' = res.attempts
          /\ last' = [op |-> "is_rate_limited", id |-> identifier,
                      ret |-> res.ret]
  /\ UNCHANGED <<now, lim, recorded, lost, failed>>
  /\ LimFrame

RecordAttempt ==
  /\ Recorded < MaxAttempts
  /\ \E identifier \in Identifiers :
       /\ attempts' = record_attempt(attempts, identifier, now)
       /\ recorded' = record_attempt(recorded, identifier, now)
       /\ last' = [op |-> "record_attempt", id |-> identifier]
  /\ UNCHANGED <<now, lim, lost, failed>>
  /\ LimFrame

NextLimiter ==
  \/ TickMinutes
  \/ IsRateLimited
  \/ RecordAttempt

SpecLimiter == Init /\ [][NextLimiter]_vars

\* --------------------------------------------- rate limiter under threads
\* A variant: a call waits until no other call is in progress.
LimAvailable_locked(t) == \A u \in Requests \ {t} : lim[u].pc = "idle"
\* RateLimiter takes no lock: a thread's call starts and goes on whatever
\* the other threads are in the middle of.
LimAvailable(t) == TRUE

\* The identifier the racing requests come from.
RaceIdentifiers == {"10.0.0.1"}

\* What a step of a thread's rate limiter call leaves alone.
RaceFrame ==
  /\ last' = [op |-> "limiter"]
  /\ UNCHANGED <<now, lost, failed>>
  /\ LimFrame

\* A thread starts a call: no running call is alone any longer.
Joined(t, call) ==
  [u \in Requests |->
     IF u = t THEN call
     ELSE IF lim[u].pc = "idle" THEN lim[u]
     ELSE [lim[u] EXCEPT !.alone = FALSE]]

\* self.attempts[identifier] is bound to a new list: a thread that has
\* loaded the old list for its append now holds a list nobody reads.
Rebound(l, t, identifier) ==
  [u \in Requests |->
     IF u # t /\ l[u].pc = "append" /\ l[u].id = identifier
     THEN [l[u] EXCEPT !.held = FALSE] ELSE l[u]]

NoOtherCall(t) == \A u \in Requests \ {t} : lim[u].pc = "idle"

\* is_rate_limited: now and window_start are read.
CheckStart(t) ==
  /\ lim[t].pc = "idle"
  /\ LimAvailable(t)
  /\ \E identifier \in RaceIdentifiers :
       lim' = Joined(t, [pc |-> "clean", op |-> "is_rate_limited",
                         id |-> identifier, t0 |-> now, snap |-> << >>,
                         held |-> FALSE, alone |-> NoOtherCall(t)])
  /\ UNCHANGED <<attempts, recorded>>
  /\ RaceFrame

\* The list comprehension reads the identifier's list.
CheckRead(t) ==
  /\ lim[t].pc = "clean"
  /\ LimAvailable(t)
  /\ lim' = [lim EXCEPT ![t] =
               IF lim[t].id \in DOMAIN attempts
               THEN [@ EXCEPT !.pc = "store",
                              !.snap = FreshOf(attempts[lim[t].id], lim[t].t0)]
               ELSE [@ EXCEPT !.pc = "count"]]
  /\ UNCHANGED <<attempts, recorded>>
  /\ RaceFrame

\* The new list is assigned to self.attempts[identifier].
CheckStore(t) ==
  /\ lim[t].pc = "store"
  /\ LimAvailable(t)
  /\ attempts' = [attempts EXCEPT ![lim[t].id] = lim[t].snap]
  /\ lim' = Rebound([lim EXCEPT ![t].pc = "count"], t, lim[t].id)
  /\ lost' = lost + Len(FreshOf(attempts[lim[t].id], lim[t].t0))
                  - Len(lim[t].snap)
  /\ UNCHANGED <<recorded, failed>>
  /\ UNCHANGED now
  /\ LimFrame
  /\ last' = [op |-> "limiter"]

\* len(self.attempts.get(identifier, [])) >= self.max_attempts is returned.
CheckCount(t) ==
  /\ lim[t].pc = "count"
  /\ LimAvailable(t)
  /\ last' = [op |-> "is_rate_limited", id |-> lim[t].id, t0 |-> lim[t].t0,
              alone |-> lim[t].alone,
              ret |-> Limited(Len(Get(attempts, lim[t].id, << >>)))]
  /\ lim' = [lim EXCEPT ![t] = IdleLim]
  /\ UNCHANGED <<attempts, recorded, now, lost, failed>>
  /\ LimFrame

\* record_attempt: "if identifier not in self.attempts" is evaluated.
RecordStart(t) ==
  /\ lim[t].pc = "idle"
  /\ LimAvailable(t)
  /\ Recorded + Cardinality({u \in Requests : lim[u].pc \in
                               {"init", "load", "append"}}) < MaxAttempts
  /\ \E identifier \in RaceIdentifiers :
       lim' = Joined(t, [pc |-> IF identifier \in DOMAIN attempts
                                THEN "load" ELSE "init",
                         op |-> "record_attempt", id |-> identifier,
                         t0 |-> now, snap |-> << >>, held |-> FALSE,
                         alone |-> NoOtherCall(t)])
  /\ UNCHANGED <<attempts, recorded>>
  /\ RaceFrame

\* self.attempts[identifier] = [].
RecordInit(t) ==
  /\ lim[t].pc = "init"
  /\ LimAvailable(t)
  /\ attempts' = [k \in DOMAIN attempts \cup {lim[t].id} |->
                    IF k = lim[t].id THEN << >> ELSE attempts[k]]
  /\ lim' = Rebound([lim EXCEPT ![t].pc = "load"], t, lim[t].id)
  /\ UNCHANGED recorded
  /\ RaceFrame

\* self.attempts[identifier] is loaded for the call of append.
RecordLoad(t) ==
  /\ lim[t].pc = "load"
  /\ LimAvailable(t)
  /\ lim' = [lim EXCEPT ![t].pc = "append", ![t].held = TRUE]
  /\ UNCHANGED <<attempts, recorded>>
  /\ RaceFrame

\* datetime.utcnow() is appended to the loaded list.
RecordAppend(t) ==
  /\ lim[t].pc = "append"
  /\ LimAvailable(t)
  /\ attempts' = IF lim[t].held
                 THEN [attempts EXCEPT ![lim[t].id] = Append(@, now)]
                 ELSE attempts
  /\ recorded' = record_attempt(recorded, lim[t].id, now)
  /\ lim' = [lim EXCEPT ![t] = IdleLim]
  /\ last' = [op |-> "record_attempt", id |-> lim[t].id]
  /\ UNCHANGED <<now, lost, failed>>
  /\ LimFrame

LimiterStep ==
  \E t \in Requests :
    \/ CheckStart(t)
    \/ CheckRead(t)
    \/ CheckStore(t)
    \/ CheckCount(t)
    \/ RecordStart(t)
    \/ RecordInit(t)
    \/ RecordLoad(t)
    \/ RecordAppend(t)

\* The calls of the threads, all within one reading of the clock.
NextRace == LimiterStep

SpecRace == Init /\ [][NextRace]_vars

\* ------------------------------------------------- anonymous-only routes
\* anonymous_required(f) called with the context g.
anonymous_required(ctx, is_json) ==
  IF ctx.is_authenticated
  THEN IF is_json
       THEN [invoked |-> FALSE, status |-> 200,
             body |-> [success |-> TRUE, message |-> "Already authenticated",
                       redirect |-> <<"/auth", "/login", "-success">>]]
       ELSE redirect(<<"/auth", "/login", "-success">>)
  ELSE Invoked

\* The routes app.py puts behind anonymous_required, and those of them that
\* are also behind rate_limit_check.
AnonymousPaths ==
  { <<"/auth", "/login">>, <<"/auth", "/signup">>,
    <<"/auth", "/reset-password">>, <<"/auth", "/google">> }
RateLimitedPaths == AnonymousPaths \ { <<"/auth", "/google">> }

\* rate_limit_check()(f): the limiter's dict afterwards and the answer.
rate_limit_check(att, path, identifier, t, inner) ==
  IF path \in RateLimitedPaths
  THEN LET res == is_rate_limited(att, identifier, t)
       IN [attempts |-> res.attempts,
           resp |-> IF res.ret
                    THEN JsonResponse(429, [success |-> FALSE,
                           message |->
                             "Too many attempts. Please try again later."])
                    ELSE inner]
  ELSE [attempts |-> att, resp |-> inner]

\* A GET of one of the anonymous-only routes: before_request, then
\* anonymous_required, then rate_limit_check, then the handler, which shows
\* its page.
AnonymousRequest ==
  /\ \E path \in AnonymousPaths, is_json \in BOOLEAN,
        identifier \in Identifiers :
       LET res == before_request(Store, cookie, path, now)
           guard == anonymous_required(res.g, is_json)
           inner == IF guard.invoked
                    THEN rate_limit_check(attempts, path, identifier, now,
                                          Invoked)
                    ELSE [attempts |-> attempts, resp |-> guard]
       IN /\ sessions' = res.st.sessions
          /\ last_cleanup' = res.st.last_cleanup
          /\ file' = res.st.file
          /\ cookie' = res.cookie
          /\ flask_g' = res.g
          /\ attempts' = inner.attempts
          /\ last' = [op |-> "anonymous", path |-> path, is_json |-> is_json,
                      resp |-> inner.resp]
  /\ KeepSupplied
  /\ UNCHANGED <<now, issued, session_duration, cleanup_interval>>
  /\ UNCHANGED <<jar, logged_out, reqs, lim, recorded, lost, failed>>
  /\ UNCHANGED fsVars

NextAnonymous ==
  \/ Tick
  \/ LoginUserSession
  \/ LogoutUserSession
  \/ AnonymousRequest

SpecAnonymous == Init /\ [][NextAnonymous]_vars

\* ------------------------------------------------------------ introspection
GetStats ==
  /\ Commit([st |-> Store,
             ret |-> [kind |-> "stats", val |-> get_stats(Store, now)]],
            Call("get_stats", 0, EmptyId))
  /\ KeepSupplied
  /\ UNCHANGED <<now, issued>>

NextIntrospect ==
  \/ Tick
  \/ CreateSession
  \/ GetUserSessions
  \/ GetStats

SpecIntrospect == Init /\ [][NextIntrospect]_vars

\* ----------------------------------------------------------- sign-in route
\* What a sign-in attempt comes to: UserLoginRequest(**data) raises
\* ValueError, auth_service.login answers success = False (it catches every
\* error of the identity provider), or it answers with the user.
LoginOutcomes == {"invalid", "rejected", "success"}
LoginPath == <<"/auth", "/login">>
\* request.remote_addr of the client that signs in.
SignInAddresses == {"10.0.0.1"}

\* The response of a handler that ran.
Handled(status, body) == [invoked |-> TRUE, status |-> status, body |-> body]

\* session[key] = value.
SessionSet(ck, key, value) ==
  [k \in DOMAIN ck \cup {key} |-> IF k = key THEN value ELSE ck[k]]

\* POST /auth/login, the body of login(): the store, the cookie, the context
\* and the limiter's dict afterwards, and the response.
login(st, ck, ctx, att, is_json, outcome, user, remember, identifier, sid, gen_uid, t) ==
  CASE outcome = "invalid" ->
         [st |-> st, cookie |-> ck, g |-> ctx, attempts |-> att,
          resp |-> IF is_json THEN Handled(400, [success |-> FALSE])
                   ELSE Handled(200, [page |-> "login.html"])]
    [] outcome = "rejected" ->
         [st |-> st, cookie |-> ck, g |-> ctx,
          attempts |-> IF is_json THEN att
                       ELSE record_attempt(att, identifier, t),
          resp |-> IF is_json THEN Handled(200, [success |-> FALSE])
                   ELSE Handled(200, [page |-> "login.html"])]
    [] outcome = "success" ->
         LET request_info == [login_method |-> "email",
                              ip_address |-> identifier,
                              user_agent |-> "ua1"]
             s == login_user_session(st, ck, user, remember, request_info,
                                     sid, gen_uid, t)
             shown == [user_name |-> IF user.full_name = ""
                                     THEN "User" ELSE user.full_name,
                       user_email |-> user.email,
                       login_method |-> "email"]
         IN [s EXCEPT
               !.cookie = IF is_json THEN @
                          ELSE SessionSet(@, "login_success", shown)]
            @@ [attempts |-> att,
                resp |-> IF is_json THEN Handled(200, [success |-> TRUE])
                         ELSE [invoked |-> TRUE, status |-> 302,
                               location |-> <<"/auth", "/login", "-success">>]]

\* The route /auth/login as app.py decorates it: before_request, then
\* anonymous_required, then rate_limit_check, then login().
login_route(st, ck, att, is_json, outcome, user, remember, identifier, sid, gen_uid, t) ==
  LET before == before_request(st, ck, LoginPath, t)
      guard == anonymous_required(before.g, is_json)
      checked == rate_limit_check(att, LoginPath, identifier, t, Invoked)
  IN IF ~guard.invoked
     THEN [st |-> before.st, cookie |-> before.cookie, g |-> before.g,
           attempts |-> att, resp |-> guard]
     ELSE IF ~checked.resp.invoked
     THEN [st |-> before.st, cookie |-> before.cookie, g |-> before.g,
           attempts |-> checked.attempts, resp |-> checked.resp]
     ELSE login(before.st, before.cookie, before.g, checked.attempts, is_json,
                outcome, user, remember, identifier, sid, gen_uid, t)

\* A sign-in request of a browser that holds no session.
LoginPost ==
  /\ "session_id" \notin DOMAIN cookie
  /\ TotalLen(failed, DOMAIN failed) <= MaxAttempts
  /\ \E identifier \in SignInAddresses, is_json \in BOOLEAN,
        outcome \in LoginOutcomes, user \in {Alice}, remember \in {FALSE} :
       /\ outcome = "success" => issued < MaxSessions
       /\ \E res \in {login_route(Store, cookie, attempts, is_json, outcome,
                                  user, remember, identifier,
                                  _generate_session_id(issued + 1),
                                  _generate_user_id(issued + 1), now)} :
            \E created \in {res.resp.invoked /\ outcome = "success"} :
              /\ sessions' = res.st.sessions
              /\ last_cleanup' = res.st.last_cleanup
              /\ file' = res.st.file
              /\ cookie' = res.cookie
              /\ flask_g' = res.g
              /\ attempts' = res.attempts
              /\ last' = [op |-> "login", id |-> identifier,
                          is_json |-> is_json, outcome |-> outcome,
                          resp |-> res.resp]
              /\ issued' = IF created THEN issued + 1 ELSE issued
              /\ supplied_id' =
                   [s \in DOMAIN res.st.sessions |->
                      IF s \in DOMAIN supplied_id THEN supplied_id[s]
                      ELSE user.id]
              /\ jar' = IF created
                        THEN jar \cup {[cookie |-> res.cookie, owner |-> user]}
                        ELSE jar
              /\ recorded' = IF res.resp.invoked /\ outcome = "rejected"
                                /\ ~is_json
                             THEN record_attempt(recorded, identifier, now)
                             ELSE recorded
              /\ failed' = IF res.resp.invoked /\ outcome # "success"
                           THEN record_attempt(failed, identifier, now)
                           ELSE failed
  /\ UNCHANGED <<now, session_duration, cleanup_interval>>
  /\ UNCHANGED <<logged_out, reqs, lim, lost>>
  /\ UNCHANGED fsVars

NextSignIn ==
  \/ TickMinutes
  \/ LoginPost

SpecSignIn == Init /\ [][NextSignIn]_vars

\* ------------------------------------------------------------- collisions
\* create_session when _generate_session_id() is taken as the random source
\* it is: the id it returns may be one it returned before.
CreateSessionAnyId ==
  /\ issued < MaxSessions
  /\ \E user_data \in UserData, sid \in SessionIds :
       LET res == create_session(Store, user_data, sid,
                                 _generate_user_id(issued + 1), now)
           uid == Get(user_data, "id", EmptyId)
           call == [op |-> "create_session", sid |-> sid, uid |-> uid,
                    after |-> Follows("create_session", sid),
                    email |-> Get(user_data, "email", ""),
                    replaced |->
                      sid \in DOMAIN _cleanup_if_needed(Store, now).sessions]
       IN /\ Commit(res, call)
          /\ issued' = issued + 1
          /\ supplied_id' = [s \in DOMAIN sessions' |->
                               IF s = sid THEN uid ELSE supplied_id[s]]
  /\ UNCHANGED now

NextCollide ==
  \/ Tick
  \/ CreateSessionAnyId
  \/ GetSession
  \/ InvalidateSession

SpecCollide == Init /\ [][NextCollide]_vars

\* ------------------------------------------------------ rewritten records
\* update_session(session_id, updates) takes any dict: here its caller
\* passes the fields create_session set to identify the record.
IdentityUpdates(t) ==
  {[session_id |-> s] : s \in SessionIds}
  \cup {[user_id |-> UserA], [created_at |-> isoformat(t)]}

UpdateSessionIdentity == UpdateSessionWith(IdentityUpdates(now))

NextRewrite ==
  \/ Tick
  \/ CreateSession
  \/ GetSession
  \/ UpdateSessionIdentity
  \/ GetUserSessions

SpecRewrite == Init /\ [][NextRewrite]_vars

\* ------------------------------------------------------ nested lock entries
\* The `with self._lock:` blocks a method enters while its own is open, in
\* the order it enters them: cleanup_expired_sessions when the throttled
\* sweep of create_session or get_session is due, invalidate_session when
\* get_session finds the record expired, inactive or malformed, and
\* get_session itself when refresh_session calls it.
LookupEntries(m, sid, t) ==
  LET due == t - last_cleanup > cleanup_interval
      swept == IF due THEN _clean_expired(m, t) ELSE m
  IN (IF due THEN <<"cleanup_expired_sessions">> ELSE << >>)
     \o (IF sid \in DOMAIN swept
            /\ (~IsIso(swept[sid].expires_at)
                \/ GetSessionExpired(swept[sid], t))
         THEN <<"invalidate_session">> ELSE << >>)

NestedEntries(call, m, t) ==
  CASE call.op = "create_session" ->
         IF t - last_cleanup > cleanup_interval
         THEN <<"cleanup_expired_sessions">> ELSE << >>
    [] call.op = "get_session" -> LookupEntries(m, call.sid, t)
    [] call.op = "refresh_session" ->
         <<"get_session">> \o LookupEntries(m, call.sid, t)
    [] OTHER -> << >>

\* Where a thread is after k nested entries.
NestedPc == <<"nested1", "nested2", "nested3">>
EntriesDone(at) ==
  IF at = "body" THEN 0 ELSE CHOOSE k \in 1..Len(NestedPc) : NestedPc[k] = at

\* The thread, inside its method, enters the next nested `with self._lock:`.
Reenter(t) ==
  /\ pc[t] \in {"body"} \cup {NestedPc[k] : k \in 1..Len(NestedPc)}
  /\ EntriesDone(pc[t]) < Len(NestedEntries(cur[t], mem[proc_of[t]], now))
  /\ LockAvailable(proc_of[t], t)
  /\ pc' = [pc EXCEPT ![t] = NestedPc[EntriesDone(pc[t]) + 1]]
  /\ UNCHANGED <<storeVars, webVars>>
  /\ UNCHANGED <<proc_of, cur, mem, lock, fs_path, inode, fd, reader, pre, ref,
                 ref_ver, file_ver, file_ok, last_renamed>>

\* The method body once every nested block was entered, up to its call of
\* _save_sessions if it makes one.
NestedBody(t) ==
  /\ pc[t] \in {"body"} \cup {NestedPc[k] : k \in 1..Len(NestedPc)}
  /\ EntriesDone(pc[t]) = Len(NestedEntries(cur[t], mem[proc_of[t]], now))
  /\ \E res \in {RunCallOn(cur[t], [sessions |-> mem[proc_of[t]],
                                    last_cleanup |-> last_cleanup,
                                    file |-> NoFile])} :
       /\ mem' = [mem EXCEPT ![proc_of[t]] = res.st.sessions]
       /\ last_cleanup' = res.st.last_cleanup
       /\ cur' = [cur EXCEPT ![t].ret = res.ret]
       /\ pc' = [pc EXCEPT ![t] =
                   IF res.st.file # NoFile THEN "open" ELSE "release"]
  /\ UNCHANGED <<now, sessions, file, issued, last, supplied_id,
                 session_duration, cleanup_interval>>
  /\ UNCHANGED webVars
  /\ UNCHANGED <<proc_of, lock, fs_path, inode, fd, reader, pre, ref, ref_ver,
                 file_ver, file_ok, last_renamed>>

\* A thread's own steps through one call.
NestedStep(t) ==
  \/ Acquire(t)
  \/ Reenter(t)
  \/ NestedBody(t)
  \/ FlushOpen(t)
  \/ FlushLock(t)
  \/ FlushDump(t)
  \/ FlushSync(t)
  \/ FlushUnlock(t)
  \/ FlushRename(t)
  \/ Release(t)

\* The time that passes between the construction of the store and the first
\* call of a thread; the calls themselves are over within one unit of the
\* clock, which is the session lifetime.
TickBeforeCalls ==
  /\ \A t \in Threads : pc[t] = "idle"
  /\ Tick

\* open(temp_file, 'w') raises: _save_sessions catches it and the method goes
\* on to its return. A failure at a later statement of the flush takes the
\* thread to the same place.
OpenFails(t) ==
  /\ pc[t] = "open"
  /\ Interrupt(t)

\* The threads of one process, the clock, and flushes that may fail.
NextNested ==
  \/ TickBeforeCalls
  \/ \E t \in Threads : NestedStep(t)
  \/ \E t \in Threads : OpenFails(t)

\* A thread that can take a step is scheduled: the interpreter lets every
\* runnable thread run, and a thread blocked on the lock is woken when the
\* lock is released.
SpecNested ==
  /\ InitThreads([t \in Threads |-> 1])
  /\ [][NextNested]_vars
  /\ \A t \in Threads : WF_vars(NestedStep(t))

\* ================================================================== claims
\* The record a rec result denotes: the dict stored under its session id.
Returned(ret) == sessions[ret.sid]

\* C1: every record get_session returns is active and has expires_at
\* strictly later than now; a record with expires_at <= now (the boundary
\* expires_at = now included) or active = false is never returned.
C1_ReturnedOnlyIfValid ==
  (last.op = "get_session" /\ last.ret.kind = "rec") =>
    /\ last.sid \in DOMAIN sessions
    /\ Returned(last.ret).active
    /\ IsIso(Returned(last.ret).expires_at)
    /\ fromisoformat(Returned(last.ret).expires_at) > now

\* C2: idempotent expiry.  Once the clock is past the expires_at of a record,
\* get_session of its id returns none after whatever operation comes next,
\* and an id that has left the map never comes back.
C2_IdempotentExpiry ==
  [][\A s \in SessionIds :
       /\ (s \in DOMAIN sessions
           /\ IsIso(sessions[s].expires_at)
           /\ now > fromisoformat(sessions[s].expires_at))
          => get_session(Store', s, now').ret = RetNone
       /\ (s <= issued /\ s \notin DOMAIN sessions) => s \notin DOMAIN sessions'
    ]_vars

\* The identity claims and client metadata of a record.
ClaimsOf(r) ==
  <<r.user_id, r.user_email, r.user_name, r.company_name, r.startup_stage,
    r.avatar_url, r.login_method, r.ip_address, r.user_agent>>

\* C3: a get_session of the id create_session has just returned gives a
\* record with the user_id and the identity claims of the created one.
C3_GetAfterCreate ==
  [][(last.op = "create_session" /\ last'.op = "get_session" /\ last'.sid = last.sid)
       => /\ last'.ret = [kind |-> "rec", sid |-> last.sid]
          /\ last.sid \in DOMAIN sessions /\ last.sid \in DOMAIN sessions'
          /\ ClaimsOf(sessions'[last.sid]) = ClaimsOf(sessions[last.sid])
          /\ sessions'[last.sid].session_id = last.sid
    ]_vars

C3_Witness ==
  /\ last.op = "get_session"
  /\ last.after = "create"
  /\ last.ret.kind = "rec"
  /\ Returned(last.ret).user_email = "b@x.test"

\* C4: invalidate_user_sessions(u) removes exactly the records whose user_id
\* is u and returns their number; every other record stays in the map with
\* every field unchanged, and get_session answers for it as it did before.
C4_InvalidateUserFrame ==
  [][last'.op = "invalidate_user_sessions" =>
       LET removed == {s \in DOMAIN sessions : sessions[s].user_id = last'.uid}
       IN /\ DOMAIN sessions' = DOMAIN sessions \ removed
          /\ last'.ret = RetInt(Cardinality(removed))
          /\ \A s \in DOMAIN sessions' :
               /\ sessions'[s] = sessions[s]
               /\ get_session(Store', s, now').ret = get_session(Store, s, now).ret
    ]_vars

C4_Witness ==
  /\ last.op = "invalidate_user_sessions"
  /\ last.ret.val >= 1
  /\ \E s \in DOMAIN sessions :
       /\ sessions[s].user_id # last.uid
       /\ get_session(Store, s, now).ret.kind = "rec"

\* The step is invalidate_user_sessions(u) taken with exactly two sessions
\* in the map that were created from claims whose user identifier is u, both
\* valid; it returns 2, get_user_sessions(u) is then empty and
\* get_stats().active_sessions has dropped by exactly 2.
InvalidatesBothOf(u) ==
  (/\ last'.op = "invalidate_user_sessions"
   /\ last'.uid = u
   /\ LET created == {s \in DOMAIN sessions : supplied_id[s] = u}
      IN /\ Cardinality(created) = 2
         /\ \A s \in created : KeptByClean(sessions[s], now))
    => /\ last'.ret = RetInt(2)
       /\ get_user_sessions(Store', u, now').ret = RetList(<< >>)
       /\ get_stats(Store', now').active_sessions
            = get_stats(Store, now).active_sessions - 2

C6_InvalidateTwice ==
  [][last'.op = "invalidate_session" =>
       /\ last'.sid \in DOMAIN sessions =>
            /\ last'.ret = RetBool(TRUE)
            /\ last'.sid \notin DOMAIN sessions'
            /\ get_session(Store', last'.sid, now').ret = RetNone
       /\ (last.op = "invalidate_session" /\ last.sid = last'.sid
           /\ last.ret = RetBool(TRUE)) =>
            /\ last'.ret = RetBool(FALSE)
            /\ sessions' = sessions
            /\ file' = file
            /\ last_cleanup' = last_cleanup
    ]_vars

C6_Witness ==
  /\ last.op = "invalidate_session"
  /\ last.after = "invalidate"
  /\ last.ret = RetBool(FALSE)
  /\ DOMAIN sessions # {}


\* ---- C7
AllCreated == \A t \in Threads : pc[t] = "done" /\ cur[t].op = "create_session"

CreatedIds == {cur[t].sid : t \in Threads}

\* C7: when every one of the NumThreads threads of one process has called
\* create_session and all calls have returned, the session ids are pairwise
\* distinct and new, each call returned its own record, and the in-memory map
\* and the backing file both hold exactly those records (besides the ones
\* that were there before), all of them active and unexpired.
C7_ConcurrentCreates ==
  AllCreated =>
    /\ Cardinality(CreatedIds) = NumThreads
    /\ CreatedIds \cap pre = {}
    /\ DOMAIN mem[1] = pre \cup CreatedIds
    /\ \A t \in Threads :
         /\ cur[t].ret = [kind |-> "rec", sid |-> cur[t].sid]
         /\ mem[1][cur[t].sid].session_id = cur[t].sid
         /\ KeptByClean(mem[1][cur[t].sid], now)
    /\ fs_path[store_file] # 0
    /\ inode[fs_path[store_file]] = Serialize(mem[1])
    /\ _load_sessions(inode[fs_path[store_file]], now) = mem[1]

\* All threads created a session in a store that was empty: exactly
\* NumThreads records.
C7_Witness ==
  /\ AllCreated
  /\ pre = {}
  /\ Cardinality(DOMAIN mem[1]) = NumThreads

\* ---- C8
InCall(t) == pc[t] \notin {"idle", "done"}

Quiet == \A t \in Threads : ~InCall(t)

\* C8: in one process at most one thread is inside a Store operation, from
\* its in-memory mutation to the end of its flush; every operation returns
\* what it returns when the operations run one at a time in the order in
\* which they took the lock; every version renamed into place is the complete
\* document of the next flushing operation of that order; and when no call is
\* running the map and the file are those of that sequential run.
C8_Linearizable ==
  /\ \A t, u \in Threads :
       (t # u /\ proc_of[t] = proc_of[u]) => ~(InCall(t) /\ InCall(u))
  /\ \A t \in Threads :
       (pc[t] \in {"release", "done"} /\ cur[t].op # "none") => cur[t].ret = cur[t].want
  /\ file_ok
  /\ file_ver <= ref_ver
  /\ Quiet =>
       /\ mem[1] = ref
       /\ file_ver = ref_ver
       /\ ref_ver > 0 => inode[fs_path[store_file]] = Serialize(ref)

\* Every thread has made a call that flushed, one of them a logout of a
\* session another had created or that was there before.
C8_Witness ==
  /\ \A t \in Threads : pc[t] = "done"
  /\ ref_ver = NumThreads
  /\ \E t \in Threads : cur[t].op = "invalidate_session" /\ cur[t].ret = RetBool(TRUE)
  /\ \E t \in Threads : cur[t].op = "create_session"

\* ---- C9
\* C9: in a process whose flushes can fail at any step and which can be
\* killed at any step, the backing file is at every instant absent (nothing
\* was ever renamed into place) or a complete JSON document, the one that the
\* last successful rename installed.
C9_LiveFileIntact ==
  IF fs_path[store_file] = 0
  THEN last_renamed = NoFile
  ELSE /\ inode[fs_path[store_file]].kind = "json"
       /\ inode[fs_path[store_file]] = last_renamed

\* A flush was abandoned after it had begun to write: the temporary file is
\* left behind incomplete, next to a backing file.
C9_Witness ==
  /\ fs_path[store_file] # 0
  /\ fs_path["tmp"] # 0
  /\ inode[fs_path["tmp"]].kind = "partial"
  /\ \A t \in Threads : fd[t] = NoFd

\* ---- C10
\* C10: what a process loading the backing file reads under its shared lock
\* is always a complete JSON document.
C10_ReaderSeesParsable == reader.obs \in {"none", "json"}

\* ---- C11
\* json.load of a complete document: the map that json.dump wrote (the values
\* of a record are texts, booleans and None, which JSON carries unchanged).
json_load(content) == content.data

\* C11: every Store operation that changes the in-memory map leaves a backing
\* file that parses to exactly the map it left.
C11_WriteThrough ==
  [][sessions' # sessions =>
       (file'.kind = "json" /\ json_load(file') = sessions')]_vars

\* ---- C12
FlushFailed(t) == pc[t] \in {"release", "done"} /\ cur[t].op # "none"
                    /\ cur[t].flushed = "failed"

\* C12: in a process whose flushes can fail at the open, a write, the fsync
\* or the rename: a call whose flush failed returns the result it returns
\* when nothing fails, and never an exception; once no call is running the
\* in-memory map holds the mutations of all calls, failed flushes included;
\* the backing file is at every instant absent or the complete document of
\* the last successful rename; and right after a flush that succeeded the
\* backing file is the complete document of the current in-memory map.
C12_FlushFailureContained ==
  /\ \A t \in Threads :
       FlushFailed(t) => (cur[t].ret = cur[t].want /\ cur[t].ret.kind # "raise")
  /\ Quiet => mem[1] = ref
  /\ IF fs_path[store_file] = 0
     THEN last_renamed = NoFile
     ELSE inode[fs_path[store_file]] = last_renamed /\ last_renamed.kind = "json"
  /\ \A t \in Threads :
       (pc[t] = "release" /\ cur[t].flushed = "ok") =>
          /\ fs_path[store_file] # 0
          /\ inode[fs_path[store_file]] = Serialize(mem[proc_of[t]])

\* The flush of a create_session failed, the call returned its record, and a
\* later call's flush succeeded: the file now holds the record whose own
\* flush had failed.
C12_Witness ==
  \E t, u \in Threads :
    /\ FlushFailed(u) /\ pc[u] = "done"
    /\ cur[u].op = "create_session"
    /\ cur[u].ret = [kind |-> "rec", sid |-> cur[u].sid]
    /\ pc[t] = "release" /\ cur[t].flushed = "ok"
    /\ cur[u].sid \in DOMAIN json_load(inode[fs_path[store_file]])

\* ---- C13
\* The fields of a session record.
RecordFields ==
  {"session_id", "user_id", "user_email", "user_name", "company_name",
   "startup_stage", "avatar_url", "created_at", "expires_at", "last_accessed",
   "ip_address", "user_agent", "active", "login_method"}

\* An entry that is a session record: all fields, timestamps that parse.
WellFormedEntry(e) ==
  /\ IsDict(e)
  /\ DOMAIN e = RecordFields
  /\ IsIso(e.created_at) /\ IsIso(e.expires_at) /\ IsIso(e.last_accessed)

ValidEntry(e, t) ==
  WellFormedEntry(e) /\ e.active /\ fromisoformat(e.expires_at) > t

\* C13: after the load at construction, which never raises, the store is
\* empty if the backing file is absent or does not parse; otherwise it holds
\* exactly the entries of the file that are well-formed records, active and
\* unexpired, each unchanged.
C13_LoadSkipsInvalid ==
  last.op = "_load_sessions" =>
    /\ last.ret = RetNone
    /\ IF file.kind # "json"
       THEN sessions = << >>
       ELSE /\ DOMAIN sessions =
                 {s \in DOMAIN json_load(file) : ValidEntry(json_load(file)[s], now)}
            /\ \A s \in DOMAIN sessions : sessions[s] = json_load(file)[s]

C15_ExpiresAtCreation ==
  [][last'.op = "create_session" =>
       LET r == sessions'[last'.sid]
       IN /\ IsIso(r.created_at) /\ IsIso(r.expires_at) /\ IsIso(r.last_accessed)
          /\ fromisoformat(r.created_at) = now'
          /\ fromisoformat(r.expires_at) =
               fromisoformat(r.created_at) + session_duration
          /\ fromisoformat(r.expires_at) > fromisoformat(r.created_at)
          /\ r.last_accessed = r.created_at]_vars

\* A session created after the clock has moved on from the store's start.
C15_Witness ==
  /\ last.op = "create_session"
  /\ now > 0
  /\ last.sid \in DOMAIN sessions
  /\ sessions[last.sid].created_at = isoformat(now)

\* ---- C16
\* C16: a refresh_session(id) step on a record that is present, active and
\* unexpired (expires_at > now) sets its expires_at to now plus the session
\* duration, leaves a backing file that holds the new map, and returns the
\* record; on any other id it returns none and no record is stored under the
\* id afterwards.
C16_RefreshOnlyValid ==
  [][last'.op = "refresh_session" =>
       LET sid == last'.sid
       IN IF sid \in DOMAIN sessions /\ KeptByClean(sessions[sid], now)
          THEN /\ last'.ret = [kind |-> "rec", sid |-> sid]
               /\ sid \in DOMAIN sessions'
               /\ sessions'[sid].expires_at = isoformat(now + session_duration)
               /\ file' = Serialize(sessions')
          ELSE /\ last'.ret = RetNone
               /\ sid \notin DOMAIN sessions']_vars

\* ---- C17
\* C17: an update_session(id, fields) step returns true, with the record kept
\* and the new map flushed, when the record is present, active and unexpired;
\* on any other id it returns false and changes neither the map nor the
\* backing file.
C17_UpdateOnlyValid ==
  [][last'.op = "update_session" =>
       LET sid == last'.sid
       IN IF sid \in DOMAIN sessions /\ KeptByClean(sessions[sid], now)
          THEN /\ last'.ret = RetBool(TRUE)
               /\ sid \in DOMAIN sessions'
               /\ file' = Serialize(sessions')
          ELSE /\ last'.ret = RetBool(FALSE)
               /\ sessions' = sessions
               /\ file' = file]_vars

\* ---- C18
\* A record the sweep has to remove: malformed (its expires_at is no
\* timestamp), expired (expires_at <= now) or inactive.
ToSweep(r, t) ==
  \/ ~IsIso(r.expires_at)
  \/ fromisoformat(r.expires_at) <= t
  \/ ~r.active

ThrottledOps ==
  {"create_session", "get_session", "refresh_session", "get_user_sessions"}

\* C19: last_cleanup changes only in a step of an operation that runs the
\* throttled sweep; a create_session or get_session step sweeps exactly when
\* now - last_cleanup exceeds the cleanup interval: then last_cleanup becomes
\* the instant of the call and every record left in the map is active and
\* unexpired, otherwise last_cleanup and all records but the one the call is
\* about stay as they were; and while the clock advances with no Store call,
\* the map and the backing file, expired records included, do not change.
C19_ThrottledSweep ==
  [][/\ last_cleanup' # last_cleanup => last'.op \in ThrottledOps
     /\ last'.op \in {"create_session", "get_session"} =>
          IF now - last_cleanup > cleanup_interval
          THEN /\ last_cleanup' = now
               /\ \A s \in DOMAIN sessions' : KeptByClean(sessions'[s], now)
          ELSE /\ last_cleanup' = last_cleanup
               /\ \A s \in DOMAIN sessions \ {last'.sid} :
                    s \in DOMAIN sessions' /\ sessions'[s] = sessions[s]
     /\ last'.op = "tick" =>
          /\ sessions' = sessions
          /\ file' = file
          /\ last_cleanup' = last_cleanup]_vars

\* A create_session swept: last_cleanup is the instant of the call, and of
\* the two sessions created only the new one is in the map.
C19_Witness ==
  /\ last.op = "create_session"
  /\ now > 0
  /\ last_cleanup = now
  /\ issued = 2
  /\ DOMAIN sessions = {last.sid}

\* ---- C20
\* C20: after before_request on a path that is not skipped, the context is
\* authenticated exactly when the cookie carried a session id for which
\* get_session returns a record, and then current_user's id and email are
\* that record's user_id and user_email; otherwise the context is
\* unauthenticated with no user, and a cookie that carried a session id has
\* been cleared.
C20_BeforeRequestAuthenticates ==
  [][(last'.op = "before_request" /\ ~last'.skipped) =>
       LET sid == Get(cookie, "session_id", NoSessionId)
           found == /\ sid # NoSessionId
                    /\ get_session(Store, sid, now).ret.kind = "rec"
       IN /\ flask_g'.is_authenticated <=> found
          /\ found =>
               /\ flask_g'.current_user.kind = "user"
               /\ flask_g'.current_user.id = sessions'[sid].user_id
               /\ flask_g'.current_user.email = sessions'[sid].user_email
          /\ ~found =>
               /\ flask_g'.current_user = NoUser
               /\ sid # NoSessionId => DOMAIN cookie' = {}]_vars

\* A request on a checked path was authenticated from the cookie's session.
C20_Witness ==
  /\ last.op = "before_request"
  /\ ~last.skipped
  /\ flask_g.is_authenticated
  /\ flask_g.current_user.id = sessions[cookie.session_id].user_id


\* ---- C21
\* The request holds an open context: Flask gave it a g of its own.
InFlight(r) == reqs[r].pc # "idle"

\* C21: with requests interleaved, a request's context is unauthenticated
\* from its reset until its own lookup is attached; once before_request is
\* done the context carries a user only if the request's own cookie named a
\* session, and then the user is the one that session was made for; and no
\* request carries the user bound to the session of another request's
\* cookie unless its own cookie is bound to that user too.
C21_OwnIdentityOnly ==
  \A r \in Requests :
    /\ reqs[r].pc \in {"lookup", "attach"} => reqs[r].g = Unauthenticated
    /\ reqs[r].pc = "done" =>
         /\ reqs[r].g.is_authenticated =>
              /\ reqs[r].sent.owner.kind = "user"
              /\ reqs[r].g.current_user.id = reqs[r].sent.owner.id
              /\ reqs[r].g.current_user.email = reqs[r].sent.owner.email
         /\ ~reqs[r].g.is_authenticated => reqs[r].g.current_user = NoUser
    /\ \A q \in Requests \ {r} :
         (/\ InFlight(r) /\ InFlight(q)
          /\ reqs[r].g.is_authenticated
          /\ reqs[q].sent.owner.kind = "user"
          /\ reqs[r].g.current_user.id = reqs[q].sent.owner.id)
         => reqs[r].sent.owner = reqs[q].sent.owner

\* Two requests of different users are done at the same time, each with its
\* own user attached.
C21_Witness ==
  \E r, q \in Requests :
    /\ reqs[r].pc = "done" /\ reqs[q].pc = "done"
    /\ reqs[r].g.is_authenticated /\ reqs[q].g.is_authenticated
    /\ reqs[r].g.current_user.id # reqs[q].g.current_user.id

\* ---- C22
\* C22: after a request to a login_required route, the handler was invoked
\* exactly when the context is authenticated; with an unauthenticated
\* context a JSON request got status 401 with success false, a message and
\* an error code, and any other request got a redirect to /auth/login whose
\* next parameter, read back by the server, is the URL that was requested.
C22_LoginRequired ==
  last.op = "profile" =>
    /\ last.resp.invoked <=> flask_g.is_authenticated
    /\ (~flask_g.is_authenticated /\ last.is_json) =>
         /\ last.resp.status = 401
         /\ DOMAIN last.resp.body = {"success", "message", "error_code"}
         /\ last.resp.body.success = FALSE
    /\ (~flask_g.is_authenticated /\ ~last.is_json) =>
         /\ last.resp.status = 302
         /\ UrlPath(last.resp.location) = <<"/auth", "/login">>
         /\ request_args_get(last.resp.location, "next") = last.url

\* A browser without a session asked for a URL that has a query of its own
\* and was redirected.
C22_Witness ==
  /\ last.op = "profile"
  /\ ~last.is_json
  /\ ~last.resp.invoked
  /\ Len(last.url) > 5

\* ---- C27
\* The attempts record_attempt took for the identifier that are younger than
\* the window at minute t.
InWindow(identifier, t) ==
  LET all == Get(recorded, identifier, << >>)
  IN Cardinality({i \in 1..Len(all) : t - all[i] < window_minutes})

\* C27: is_rate_limited(identifier) returns true exactly when at least 5 of
\* the attempts recorded for the identifier lie within the last 15 minutes.
C27_LimitedIffFiveInWindow ==
  last.op = "is_rate_limited" =>
    (last.ret <=> InWindow(last.id, now) >= 5)

\* After five attempts the identifier was limited, and the window has since
\* passed without another attempt: the check answers false again.
C27_Witness ==
  /\ last.op = "is_rate_limited"
  /\ ~last.ret
  /\ Len(Get(recorded, last.id, << >>)) >= 5
  /\ InWindow(last.id, now) = 0

\* ---- C28
\* C28: a rate limiter call for one identifier leaves every other
\* identifier's list as it was, present or absent, and with it the answer
\* is_rate_limited would give for the other identifier; is_rate_limited
\* keeps exactly the fresh attempts of its own identifier and record_attempt
\* appends one attempt to its own.
C28_OtherIdentifiersUntouched ==
  [][(last'.op \in {"is_rate_limited", "record_attempt"}) =>
       LET a == last'.id
           old == Get(attempts, a, << >>)
       IN /\ \A b \in Identifiers \ {a} :
               /\ b \in DOMAIN attempts' <=> b \in DOMAIN attempts
               /\ b \in DOMAIN attempts => attempts'[b] = attempts[b]
               /\ is_rate_limited(attempts', b, now).ret
                    = is_rate_limited(attempts, b, now).ret
          /\ last'.op = "is_rate_limited" =>
               Get(attempts', a, << >>) = FreshOf(old, now)
          /\ last'.op = "record_attempt" =>
               attempts'[a] = Append(old, now)]_vars

\* A check for one identifier dropped stale attempts of its own while the
\* other identifier still holds stale attempts.
C28_Witness ==
  /\ last.op = "is_rate_limited"
  /\ \E b \in DOMAIN attempts \ {last.id} :
       FreshOf(attempts[b], now) # attempts[b]
  /\ last.id \in DOMAIN attempts
  /\ Len(attempts[last.id]) < Len(recorded[last.id])

\* ---- C29
\* seq is what is left of all after dropping some of its elements.
RECURSIVE IsSubSeq(_, _)
IsSubSeq(seq, all) ==
  IF seq = << >> THEN TRUE
  ELSE IF all = << >> THEN FALSE
  ELSE IF Head(seq) = Head(all) THEN IsSubSeq(Tail(seq), Tail(all))
  ELSE IsSubSeq(seq, Tail(all))

\* C29: no rate limiter call keeps another thread's call from starting or
\* going on, whatever step it is at; between the steps of concurrent calls
\* a list never gains an attempt that was not recorded, it can only lack
\* recorded ones.
C29_NotLockProtected ==
  /\ \A t \in Requests :
       lim[t].pc # "idle" => \A u \in Requests \ {t} : LimAvailable(u)
  /\ \A k \in DOMAIN attempts :
       \/ attempts[k] = << >>
       \/ k \in DOMAIN recorded /\ IsSubSeq(attempts[k], recorded[k])

\* Five attempts of one identifier were recorded within the window, one of
\* them appended between the read and the assignment of a concurrent check;
\* a later check that ran with no other call in progress answered false.
C29_Witness ==
  /\ last.op = "is_rate_limited"
  /\ last.alone
  /\ ~last.ret
  /\ now = last.t0
  /\ InWindow(last.id, now) >= 5
  /\ Len(attempts[last.id]) < InWindow(last.id, now)
  /\ lost > 0

\* ---- C23
\* get_session returns a record for the session id the cookie carries.
CarriesValidSession ==
  LET sid == Get(cookie, "session_id", NoSessionId)
  IN sid # NoSessionId /\ get_session(Store, sid, now).ret.kind = "rec"

\* C23: a request to an anonymous-only route whose cookie carries the id of
\* a valid session is answered with the already-signed-in destination,
\* /auth/login-success, and the wrapped handler is not invoked.
C23_SignedInSentAway ==
  [][(last'.op = "anonymous" /\ CarriesValidSession) =>
       /\ ~last'.resp.invoked
       /\ \/ /\ "location" \in DOMAIN last'.resp
             /\ last'.resp.location = <<"/auth", "/login", "-success">>
          \/ /\ "body" \in DOMAIN last'.resp
             /\ "redirect" \in DOMAIN last'.resp.body]_vars

\* ---- C24
\* C24: after login_user_session the session that goes out in the cookie
\* holds the session id and nothing else: no user id, no authentication
\* flag, no identity claim.
C24_CookieOnlySessionId ==
  last.op = "login_user_session" =>
    DOMAIN cookie \ {"_permanent"} = {"session_id"}

\* ---- C25
\* C25: after login_user_session the cookie is marked persistent exactly
\* when remember was requested.
C25_PersistentIffRemember ==
  last.op = "login_user_session" =>
    (Get(cookie, "_permanent", FALSE) <=> last.remember)

\* ---- C26
\* C26: when logout_user_session ran on a cookie that carried session id s,
\* the store holds no s afterwards, the cookie is empty and the context is
\* unauthenticated; no session id that was logged out is in the store
\* again, and every later request that presents one ends unauthenticated.
C26_LogoutEndsSession ==
  [][LET s == Get(cookie, "session_id", NoSessionId)
     IN /\ last'.op = "logout_user_session" =>
             /\ s # NoSessionId => s \notin DOMAIN sessions'
             /\ DOMAIN cookie' = {}
             /\ flask_g' = Unauthenticated
        /\ logged_out' \cap DOMAIN sessions' = {}
        /\ (last'.op = "before_request" /\ s \in logged_out) =>
             ~flask_g'.is_authenticated]_vars

\* A cookie whose session was logged out was presented again to a path that
\* is checked, before the session would have expired.
C26_Witness ==
  /\ last.op = "before_request"
  /\ ~last.skipped
  /\ last.sid \in logged_out
  /\ \E sent \in jar :
       /\ sent.cookie.session_id = last.sid
       /\ now = 0

\* ---- C30
\* C30: a call of get_user_sessions or get_stats leaves the map, every field
\* of every record in it, last_cleanup and the backing file as they were.
C30_IntrospectionReadOnly ==
  [][last'.op \in {"get_user_sessions", "get_stats"} =>
       /\ sessions' = sessions
       /\ last_cleanup' = last_cleanup
       /\ file' = file]_vars

\* ---- C31
\* C31: after every step that runs the bulk sweep, whether a direct
\* cleanup_expired_sessions call or a create_session or get_session whose
\* throttled trigger fired, get_stats().last_cleanup is the instant of that
\* step.
C31_LastCleanupIsLastSweep ==
  [][(\/ last'.op = "cleanup_expired_sessions"
      \/ /\ last'.op \in {"create_session", "get_session"}
         /\ now - last_cleanup > cleanup_interval)
     => get_stats(Store', now').last_cleanup = isoformat(now')]_vars

\* ---- C32
\* C32: with one store process per thread on the shared backing file, the
\* file a process's flush has just renamed into place is the complete
\* document of exactly that process's map; a process's map holds only the
\* sessions it loaded at construction and those it created itself, never one
\* another process persisted later; and get_session in one process for a
\* session id another process created returns None.
C32_LastWriterWins ==
  /\ \A t \in Threads :
       (cur[t].op # "none" /\ cur[t].flushed = "ok" /\ file_ver = cur[t].ver)
       => last_renamed = Serialize(mem[proc_of[t]])
  /\ \A t \in Threads : \A s \in DOMAIN mem[proc_of[t]] :
       s \in pre \/ (cur[t].op = "create_session" /\ cur[t].sid = s)
  /\ \A t \in Threads :
       (pc[t] \in {"release", "done"} /\ cur[t].op = "get_session"
        /\ cur[t].sid \notin pre)
       => cur[t].ret = RetNone

\* ---- C33
\* C33: a sign-in request from an address with at least five failed sign-in
\* attempts inside the trailing window of 15 minutes, whatever the kind of
\* client and of failure, is answered with status 429 and login() is not
\* invoked.
C33_FiveFailuresLimit ==
  [][(/\ last'.op = "login"
      /\ Len(FreshOf(Get(failed, last'.id, << >>), now)) >= max_attempts)
     => /\ last'.resp.status = 429
        /\ ~last'.resp.invoked]_vars

\* ---- C34
\* C34: before_request on /auth/login-success or /auth/profile does not skip
\* authentication, and when the cookie carries a session id for which the
\* store returns no record (invalidated or expired), the cookie is cleared
\* and the context is unauthenticated when the handler runs.
C34_NotBypassed ==
  [][(/\ last'.op = "before_request"
      /\ last'.path \in { <<"/auth", "/login", "-success">>,
                          <<"/auth", "/profile">> })
     => /\ ~last'.skipped
        /\ (/\ last'.sid # NoSessionId
            /\ get_session(Store, last'.sid, now).ret.kind # "rec")
           => /\ cookie' = EmptyCookie
              /\ ~flask_g'.is_authenticated]_vars

\* ---- C35
\* C35: a create_session step never fails on the id it was given.  When the
\* id is already a key of the map left by the sweep the call may have
\* triggered, the map keeps the same keys, the record under the id is the new
\* one (created at the instant of the call, for the new caller) and it is the
\* one returned; when the id is not a key, the map has exactly one key more,
\* the id, and every other record is unchanged.
C35_NoUniquenessCheck ==
  [][last'.op = "create_session" =>
       LET swept == _cleanup_if_needed(Store, now).sessions
           sid == last'.sid
       IN /\ last'.ret = [kind |-> "rec", sid |-> sid]
          /\ sessions'[sid].created_at = isoformat(now)
          /\ sessions'[sid].user_email = last'.email
          /\ \A s \in DOMAIN swept \ {sid} :
               s \in DOMAIN sessions' /\ sessions'[s] = swept[s]
          /\ IF sid \in DOMAIN swept
             THEN /\ DOMAIN sessions' = DOMAIN swept
                  /\ Cardinality(DOMAIN sessions')
                       = Cardinality(DOMAIN swept)
             ELSE /\ DOMAIN sessions' = DOMAIN swept \cup {sid}
                  /\ Cardinality(DOMAIN sessions')
                       = Cardinality(DOMAIN swept) + 1]_vars

\* The second create_session was handed the id of the record the first one
\* stored, still in the map: one record, the second caller's.
C35_Witness ==
  /\ last.op = "create_session"
  /\ last.replaced
  /\ issued = 2
  /\ Cardinality(DOMAIN sessions) = 1
  /\ sessions[last.sid].user_email = last.email
  /\ supplied_id[last.sid] = last.uid

\* ---- C36
\* The ids a list result holds.
ListedIds(ret) == {ret.val[i] : i \in 1..Len(ret.val)}

\* What C36 says of the records whose caller supplied an identifier for which
\* Kept holds: the record's user_id is that identifier;
\* invalidate_user_sessions for it leaves none of them in the map; and the
\* list get_user_sessions returns for it holds every one of them still in
\* the map.
StoresSuppliedId(Kept(_)) ==
  /\ \A s \in DOMAIN sessions' :
       Kept(supplied_id'[s]) => sessions'[s].user_id = supplied_id'[s]
  /\ (last'.op = "invalidate_user_sessions" /\ Kept(last'.uid))
     => \A s \in DOMAIN sessions' : supplied_id'[s] # last'.uid
  /\ (/\ last'.op = "get_user_sessions"
      /\ Kept(last'.uid)
      /\ last'.ret.kind = "list")
     => \A s \in DOMAIN sessions' :
          supplied_id'[s] = last'.uid => s \in ListedIds(last'.ret)

NonEmptyId(id) == id # EmptyId
UserFormatId(id) == id # EmptyId /\ id.pfx = "user-"

C37_UserSessionsNeverRaises ==
  [][last'.op = "get_user_sessions" =>
       /\ last'.ret.kind = "list"
       /\ ListedIds(last'.ret) =
            {s \in DOMAIN sessions :
               /\ sessions[s].user_id = last'.uid
               /\ KeptByClean(sessions[s], now)}]_vars

\* ---- C38
\* C38: after every step, every key of the map holds a record whose
\* session_id is the key, and a record that stays in the map keeps the
\* session_id, user_id and created_at it had, unless the step is the
\* create_session that stored it.
C38_KeyConsistency ==
  [][/\ \A k \in DOMAIN sessions' : sessions'[k].session_id = k
     /\ \A k \in DOMAIN sessions \cap DOMAIN sessions' :
          \/ last'.op = "create_session" /\ last'.sid = k
          \/ /\ sessions'[k].session_id = sessions[k].session_id
             /\ sessions'[k].user_id = sessions[k].user_id
             /\ sessions'[k].created_at = sessions[k].created_at]_vars

\* ---- C39
\* C39: a login_user_session step in a request whose cookie carried the id of
\* a valid session (in the map, active, unexpired) leaves that record in the
\* map unchanged and retrievable by get_session under its id, while the
\* cookie now carries the new id; and a record leaves the map only when it is
\* no longer valid or when logout_user_session invalidates it.
C39_LoginKeepsEarlierSession ==
  [][/\ last'.op = "login_user_session" =>
          LET prior == Get(cookie, "session_id", NoSessionId)
          IN (/\ prior # NoSessionId
              /\ prior \in DOMAIN sessions
              /\ KeptByClean(sessions[prior], now))
             => /\ prior \in DOMAIN sessions'
                /\ sessions'[prior] = sessions[prior]
                /\ get_session(Store', prior, now').ret.kind = "rec"
                /\ cookie'.session_id = last'.sid
                /\ cookie'.session_id # prior
     /\ \A s \in DOMAIN sessions \ DOMAIN sessions' :
          \/ ~KeptByClean(sessions[s], now)
          \/ last'.op = "logout_user_session" /\ last'.sid = s]_vars

\* The second sign-in of a browser: its cookie carries the new id, and the
\* record of the first, which the cookie carried until then, is still in the
\* map and valid.
C39_Witness ==
  /\ last.op = "login_user_session"
  /\ last.sid = 2
  /\ cookie.session_id = 2
  /\ logged_out = {}
  /\ 1 \in DOMAIN sessions
  /\ KeptByClean(sessions[1], now)
  /\ \E sent \in jar : sent.cookie.session_id = 1


====
